---- MODULE Spec2Model ----
(***************************************************************************)
(* Feature-flag registry of better-auth-feature-flags: the hook pipeline   *)
(* (hook-helpers.ts) around the nine endpoint handlers (features.ts,       *)
(* feature-flags.ts / organization-features.ts, and the first generation   *)
(* of the flag endpoints without hooks), run against a record store.       *)
(*                                                                         *)
(* One action is one whole request: before-hook, checks, store calls,      *)
(* after-hook, response.  `last` records the request just served.          *)
(***************************************************************************)
EXTENDS Naturals, FiniteSets, Sequences, TLC

VARIABLES
    features,     \* rows of model "feature"
    flags,        \* rows of model "featureFlag" / "organizationFeature"
    nextId,       \* next id the store hands out for a new row
    cascade,      \* whether the deployed store enforces onDelete: "cascade"
    flagHistory,  \* history: per pair, whether its last successful set/remove was a set
    last,         \* the request served last, with its response
    uniqueNames,  \* whether the deployed store enforces unique: true on feature.name
    procs         \* the handlers in flight when requests overlap, each at its next await

vars == <<features, flags, nextId, cascade, flagHistory, last, uniqueNames, procs>>

(***************************************************************************)
(* Bounds                                                                  *)
(***************************************************************************)
MaxRows == 3          \* rows (features and flags) the store ever creates
HookMaxRows == 2      \* the same, with hooks registered
RaceMaxRows == 3      \* the same, with overlapping requests

(***************************************************************************)
(* JavaScript values, as far as the handlers look at them                  *)
(***************************************************************************)
Undef == [t |-> "undefined"]
Null == [t |-> "null"]
VBool(b) == [t |-> "bool", b |-> b]
VNum(n) == [t |-> "num", n |-> n]
VStr(s) == [t |-> "str", s |-> s]
EmptyList == [t |-> "list", items |-> {}]
VList(S) == [t |-> "list", items |-> S]
SuccessTrue == [t |-> "obj", success |-> TRUE]

\* ToBoolean, as `if (x)`, `!x` and `x || y` apply it
Truthy(v) ==
    CASE v.t = "undefined" -> FALSE
      [] v.t = "null" -> FALSE
      [] v.t = "bool" -> v.b
      [] v.t = "num" -> v.n # 0
      [] v.t = "str" -> v.s # ""
      [] OTHER -> TRUE

\* x || y
OrElse(x, y) == IF Truthy(x) THEN x ELSE y

\* x ?? y
Coalesce(x, y) == IF x = Undef \/ x = Null THEN y ELSE x

(***************************************************************************)
(* The collaborators' tables: users with their role, organizations,        *)
(* members.  They are read, never written, by the handlers.                *)
(***************************************************************************)
RoleAdmin == <<"a", "d", "m", "i", "n">>
RoleUser == <<"u", "s", "e", "r">>
RoleNonAdmin == <<"n", "o", "n", "a", "d", "m", "i", "n">>  \* a role other than admin

Users == {"ua", "um", "ux"}
UserRole(u) == IF u = "ua" THEN RoleAdmin ELSE IF u = "ux" THEN RoleNonAdmin ELSE RoleUser

Organizations == {"o1", "o2"}        \* rows of model "organization"
OrgIds == Organizations \cup {"o9"}  \* ids a request may name; "o9" has no row
Members == {<<"o1", "um">>}          \* rows of model "member"

\* What the session provider yields: null, or a session with its user
NoSession == [t |-> "nosession"]
Session(u, o) == [t |-> "session", user |-> u, activeOrganizationId |-> o]
Sessions ==
    {NoSession,
     Session("ua", Null),
     Session("um", VStr("o1")),
     Session("um", VStr("o2")),
     Session("ux", Null)}
FewSessions == {NoSession, Session("ua", Null), Session("um", VStr("o1"))}

\* !session?.user
HasUser(session) == session # NoSession

\* String.prototype.includes
Includes(s, p) ==
    \E i \in 0..(Len(s) - Len(p)) : SubSeq(s, i + 1, i + Len(p)) = p

\* adapter.findOne({model: "user", where: id = session.user.id, select: ["role"]})
findUser(session) ==
    IF session.user \in Users THEN [role |-> UserRole(session.user)] ELSE Null

\* features.ts: !user || !user.role.includes("admin")
FeaturesAdminDenied(user) == user = Null \/ ~Includes(user.role, RoleAdmin)

\* feature-flags.ts, organization-features.ts: !user || user.role !== "admin"
FlagsAdminDenied(user) == user = Null \/ user.role # RoleAdmin

\* the membership lookup that finds a row for every caller
findMember_AnyCaller(org, session) == TRUE

\* adapter.findOne({model: "member", where: organizationId = org, userId = user})
findMember(org, session) == <<org, session.user>> \in Members

(***************************************************************************)
(* The store: feature and flag rows                                        *)
(***************************************************************************)
Ids == 1..MaxRows

\* adapter.findOne({model: "feature", where: id = fid})
findFeatureById(fs, fid) ==
    IF \E f \in fs : f.id = fid THEN CHOOSE f \in fs : f.id = fid ELSE Null

\* the lookup that finds no row
findFeatureByName_NoRow(fs, name) == Null

\* adapter.findOne({model: "feature", where: name = name}): the row inserted first
findFeatureByName(fs, name) ==
    IF \E f \in fs : f.name = name
    THEN CHOOSE f \in fs : f.name = name /\ \A g \in fs : g.name = name => f.id <= g.id
    ELSE Null

\* the lookup with the featureId clause left out
findFlag_OrgOnly(gs, org, fid) ==
    IF \E g \in gs : g.organizationId = org
    THEN CHOOSE g \in gs :
            g.organizationId = org /\ \A h \in gs : h.organizationId = org => g.id <= h.id
    ELSE Null

\* the lookup with the organizationId clause left out
findFlag_FeatureOnly(gs, org, fid) ==
    IF \E g \in gs : g.featureId = fid
    THEN CHOOSE g \in gs :
            g.featureId = fid /\ \A h \in gs : h.featureId = fid => g.id <= h.id
    ELSE Null

\* adapter.findOne({model: "featureFlag", where: organizationId = org, featureId = fid}):
\* the row inserted first
findFlag(gs, org, fid) ==
    IF \E g \in gs : g.organizationId = org /\ g.featureId = fid
    THEN CHOOSE g \in gs :
            /\ g.organizationId = org /\ g.featureId = fid
            /\ \A h \in gs : (h.organizationId = org /\ h.featureId = fid) => g.id <= h.id
    ELSE Null

\* the query with the enabled clause left out
findEnabledFlags_AnyValue(gs, org) == {g \in gs : g.organizationId = org}

\* adapter.findMany({model: "featureFlag", where: organizationId = org, enabled = true})
findEnabledFlags(gs, org) == {g \in gs : g.organizationId = org /\ g.enabled}

(***************************************************************************)
(* hook-helpers.ts                                                         *)
(***************************************************************************)
NoHook == [t |-> "nohook"]          \* no hook registered for the operation
NotCalled == [t |-> "notcalled"]    \* the request ended before the hook's turn

Err(m, st) == [t |-> "err", message |-> m, status |-> st]
BeforeHookResult(sk, d, e) == [t |-> "before", skip |-> sk, data |-> d, error |-> e]
AfterHookResult(d, e) == [t |-> "after", data |-> d, error |-> e]

\* runBeforeHook, given what the registered hook returned (or NoHook)
runBeforeHook_ErrorDoesNotSkip(h) ==
    IF h = NoHook
    THEN [skip |-> FALSE, data |-> Undef, error |-> Undef]
    ELSE [skip |-> Coalesce(h.skip, VBool(FALSE)).b, data |-> h.data, error |-> h.error]

runBeforeHook(h) ==
    IF h = NoHook
    THEN [skip |-> FALSE, data |-> Undef, error |-> Undef]
    ELSE IF Truthy(h.error)
         THEN [skip |-> TRUE, data |-> Undef, error |-> h.error]
         ELSE [skip |-> Coalesce(h.skip, VBool(FALSE)).b, data |-> h.data, error |-> Undef]

\* runAfterHook, given what the registered hook returned (or NoHook)
runAfterHook_DropsError(h) ==
    IF h = NoHook THEN [data |-> Undef, error |-> Undef]
    ELSE [data |-> h.data, error |-> Undef]

runAfterHook(h) ==
    IF h = NoHook THEN [data |-> Undef, error |-> Undef]
    ELSE [data |-> h.data, error |-> h.error]

\* ctx.json(body, {status})
Json(st, kind, v) == [status |-> st, kind |-> kind, v |-> v]
JsonError(st, m) == Json(st, "error", VStr(m))
JsonData(v) == Json(200, "data", v)      \* ctx.json({data: v})
JsonRaw(v) == Json(200, "raw", v)        \* ctx.json(v)

\* if (beforeResult.error) return ctx.json({error: message}, {status: status || 400})
BeforeErrorResponse(b) ==
    Json(OrElse(b.error.status, VNum(400)).n, "error", VStr(b.error.message))

\* if (afterResult.error) return ctx.json({error: message}, {status: status || 500})
AfterErrorResponse(a) ==
    Json(OrElse(a.error.status, VNum(500)).n, "error", VStr(a.error.message))

(***************************************************************************)
(* What one request does: its response, the store it leaves, and the steps *)
(* it took.  ran: the main action was entered (the before-hook did not     *)
(* short-circuit); reads/writes: adapter calls of the main action; after:  *)
(* what the after-hook returned, NotCalled when its turn never came;       *)
(* input: the input the main action worked on; own: the action's result.   *)
(***************************************************************************)
Outcome(resp, fs, gs, nid, ran, reads, writes, after, input, own) ==
    [resp |-> resp, features |-> fs, flags |-> gs, nextId |-> nid,
     ran |-> ran, reads |-> reads, writes |-> writes, after |-> after,
     input |-> input, own |-> own]

\* an early return: nothing written, no after-hook
Return(resp, ran, reads, input) ==
    Outcome(resp, features, flags, nextId, ran, reads, 0, NotCalled, input, Undef)

\* the tail of a handler whose action succeeded with result `own`:
\* after-hook error, else ctx.json({data: afterResult.data || own})
AfterData_OwnResultFirst(ha, own) ==
    LET a == runAfterHook(ha)
    IN  IF Truthy(a.error) THEN AfterErrorResponse(a) ELSE JsonData(own)

AfterData(ha, own) ==
    LET a == runAfterHook(ha)
    IN  IF Truthy(a.error) THEN AfterErrorResponse(a) ELSE JsonData(OrElse(a.data, own))

\* the same tail in features.ts: ctx.json(afterResult.data || own)
AfterRaw(ha, own) ==
    LET a == runAfterHook(ha)
    IN  IF Truthy(a.error) THEN AfterErrorResponse(a) ELSE JsonRaw(OrElse(a.data, own))

\* if (beforeResult.skip) { error ? error response : ctx.json({data: beforeResult.data}) }
SkipWithData(b) ==
    IF Truthy(b.error) THEN BeforeErrorResponse(b) ELSE JsonData(b.data)

\* ... ctx.json({data: beforeResult.data || []})
SkipWithList(b) ==
    IF Truthy(b.error) THEN BeforeErrorResponse(b) ELSE JsonData(OrElse(b.data, EmptyList))

\* ... ctx.json({data: {success: true}})
SkipWithSuccess(b) ==
    IF Truthy(b.error) THEN BeforeErrorResponse(b) ELSE JsonData(SuccessTrue)

Unauthorized == JsonError(401, "Unauthorized")
Forbidden == JsonError(403, "Forbidden: Admin access required")
NotMember == JsonError(403, "Forbidden: Not a member of this organization")
FeatureNotFound == JsonError(404, "Feature not found")

(***************************************************************************)
(* features.ts                                                             *)
(***************************************************************************)
CreateFeatureInput(n, dn, d, a) ==
    [t |-> "obj", name |-> n, displayName |-> dn, description |-> d, active |-> a]
UpdateFeatureInput(dn, d, a) ==
    [t |-> "obj", displayName |-> dn, description |-> d, active |-> a]
\* a row of model "feature"; no handler passes updatedAt to the adapter and the
\* schema gives the field neither a default nor an onUpdate
FeatureRow(id, n, dn, d, a) ==
    [t |-> "feature", id |-> id, name |-> n, displayName |-> dn, description |-> d,
     active |-> a, updatedAt |-> Undef]

\* the handler that takes the default whenever the given switch is falsy
createCreateFeatureEndpoint_ActiveOrTrue(session, body, hb, ha) ==
    LET b == runBeforeHook(hb)
        inputData == OrElse(b.data, body)
        user == findUser(session)
        existing == findFeatureByName(features, inputData.name)
        feature == FeatureRow(nextId, inputData.name, inputData.displayName,
                              OrElse(inputData.description, Null),
                              OrElse(inputData.active, VBool(TRUE)).b)
    IN  IF b.skip THEN Return(SkipWithData(b), FALSE, 0, Undef)
        ELSE IF ~HasUser(session) THEN Return(Unauthorized, TRUE, 0, inputData)
        ELSE IF FeaturesAdminDenied(user) THEN Return(Forbidden, TRUE, 1, inputData)
        ELSE IF ~Truthy(inputData.name) \/ ~Truthy(inputData.displayName)
             THEN Return(JsonError(400, "name and displayName are required"), TRUE, 1, inputData)
        ELSE IF existing # Null
             THEN Return(JsonError(409, "Feature with this name already exists"), TRUE, 2, inputData)
        ELSE Outcome(AfterRaw(ha, feature), features \cup {feature}, flags,
                     nextId + 1, TRUE, 2, 1, ha, inputData, feature)

createCreateFeatureEndpoint(session, body, hb, ha) ==
    LET b == runBeforeHook(hb)
        inputData == OrElse(b.data, body)
        user == findUser(session)
        existing == findFeatureByName(features, inputData.name)
        feature == FeatureRow(nextId, inputData.name, inputData.displayName,
                              OrElse(inputData.description, Null),
                              Coalesce(inputData.active, VBool(TRUE)).b)
    IN  IF b.skip THEN Return(SkipWithData(b), FALSE, 0, Undef)
        ELSE IF ~HasUser(session) THEN Return(Unauthorized, TRUE, 0, inputData)
        ELSE IF FeaturesAdminDenied(user) THEN Return(Forbidden, TRUE, 1, inputData)
        ELSE IF ~Truthy(inputData.name) \/ ~Truthy(inputData.displayName)
             THEN Return(JsonError(400, "name and displayName are required"), TRUE, 1, inputData)
        ELSE IF existing # Null
             THEN Return(JsonError(409, "Feature with this name already exists"), TRUE, 2, inputData)
        ELSE Outcome(AfterRaw(ha, feature), features \cup {feature}, flags,
                     nextId + 1, TRUE, 2, 1, ha, inputData, feature)

createListFeaturesEndpoint(session, hb, ha) ==
    LET b == runBeforeHook(hb)
        user == findUser(session)
        \* findMany sorted by createdAt desc: the rows, newest first
        list == VList(features)
    IN  IF b.skip THEN Return(SkipWithList(b), FALSE, 0, Undef)
        ELSE IF ~HasUser(session) THEN Return(Unauthorized, TRUE, 0, Undef)
        ELSE IF FeaturesAdminDenied(user) THEN Return(Forbidden, TRUE, 1, Undef)
        ELSE Outcome(AfterRaw(ha, list), features, flags, nextId,
                     TRUE, 2, 0, ha, Undef, list)

\* the update that takes a field only when its value is truthy
updatedFeature_TruthyOnly(f, inputData) ==
    [f EXCEPT !.displayName = IF Truthy(inputData.displayName)
                              THEN inputData.displayName ELSE @,
              !.description = IF Truthy(inputData.description)
                              THEN inputData.description ELSE @,
              !.active = IF Truthy(inputData.active) THEN inputData.active.b ELSE @]

\* the update that passes the whole input on to the adapter, a name included
updatedFeature_TakesName(f, inputData) ==
    [f EXCEPT !.name = IF "name" \in DOMAIN inputData /\ inputData.name # Undef
                       THEN inputData.name ELSE @,
              !.displayName = IF inputData.displayName # Undef
                              THEN inputData.displayName ELSE @,
              !.description = IF inputData.description # Undef
                              THEN inputData.description ELSE @,
              !.active = IF inputData.active # Undef THEN inputData.active.b ELSE @]

\* adapter.update({model: "feature", where: id = fid, update: {...}}) of features.ts 294-312
updatedFeature(f, inputData) ==
    [f EXCEPT !.displayName = IF inputData.displayName # Undef
                              THEN inputData.displayName ELSE @,
              !.description = IF inputData.description # Undef
                              THEN inputData.description ELSE @,
              !.active = IF inputData.active # Undef THEN inputData.active.b ELSE @]

createUpdateFeatureEndpoint(session, fid, body, hb, ha) ==
    LET b == runBeforeHook(hb)
        inputData == OrElse(b.data, body)
        user == findUser(session)
        existing == findFeatureById(features, fid)
        feature == updatedFeature(existing, inputData)
    IN  IF b.skip THEN Return(SkipWithData(b), FALSE, 0, Undef)
        ELSE IF ~HasUser(session) THEN Return(Unauthorized, TRUE, 0, inputData)
        ELSE IF FeaturesAdminDenied(user) THEN Return(Forbidden, TRUE, 1, inputData)
        ELSE IF existing = Null THEN Return(FeatureNotFound, TRUE, 2, inputData)
        ELSE Outcome(AfterRaw(ha, feature), (features \ {existing}) \cup {feature}, flags,
                     nextId, TRUE, 2, 1, ha, inputData, feature)

\* a store that never drops the referencing rows
flagsAfterFeatureDelete_KeepsRows(fid) == flags

\* adapter.delete({model: "feature", where: id = fid}); the store drops the flags that
\* reference the row when it enforces the schema's onDelete: "cascade"
flagsAfterFeatureDelete(fid) ==
    IF cascade THEN {g \in flags : g.featureId # fid} ELSE flags

createDeleteFeatureEndpoint(session, fid, hb, ha) ==
    LET b == runBeforeHook(hb)
        user == findUser(session)
        existing == findFeatureById(features, fid)
    IN  IF b.skip THEN Return(SkipWithSuccess(b), FALSE, 0, Undef)
        ELSE IF ~HasUser(session) THEN Return(Unauthorized, TRUE, 0, Undef)
        ELSE IF FeaturesAdminDenied(user) THEN Return(Forbidden, TRUE, 1, Undef)
        ELSE IF existing = Null THEN Return(FeatureNotFound, TRUE, 2, Undef)
        ELSE Outcome(AfterRaw(ha, SuccessTrue), features \ {existing},
                     flagsAfterFeatureDelete(fid), nextId,
                     TRUE, 2, 1, ha, Undef, SuccessTrue)

\* const active = beforeResult.data !== undefined ? beforeResult.data : body.active
toggleInput_Truthy(b, bodyActive) == OrElse(b.data, bodyActive)

toggleInput(b, bodyActive) == IF b.data # Undef THEN b.data ELSE bodyActive

\* the handler with the feature looked up ahead of the session check
createToggleFeatureEndpoint_LookupFirst(session, fid, bodyActive, hb, ha) ==
    LET b == runBeforeHook(hb)
        active == toggleInput(b, bodyActive)
        user == findUser(session)
        existing == findFeatureById(features, fid)
        feature == [existing EXCEPT !.active = active.b]
    IN  IF b.skip THEN Return(SkipWithData(b), FALSE, 0, Undef)
        ELSE IF existing = Null THEN Return(FeatureNotFound, TRUE, 1, active)
        ELSE IF ~HasUser(session) THEN Return(Unauthorized, TRUE, 1, active)
        ELSE IF FeaturesAdminDenied(user) THEN Return(Forbidden, TRUE, 2, active)
        ELSE Outcome(AfterRaw(ha, feature), (features \ {existing}) \cup {feature}, flags,
                     nextId, TRUE, 2, 1, ha, active, feature)

\* the handler that flips the stored switch instead of storing the input
createToggleFeatureEndpoint_Flips(session, fid, bodyActive, hb, ha) ==
    LET b == runBeforeHook(hb)
        active == toggleInput(b, bodyActive)
        user == findUser(session)
        existing == findFeatureById(features, fid)
        feature == [existing EXCEPT !.active = ~existing.active]
    IN  IF b.skip THEN Return(SkipWithData(b), FALSE, 0, Undef)
        ELSE IF ~HasUser(session) THEN Return(Unauthorized, TRUE, 0, active)
        ELSE IF FeaturesAdminDenied(user) THEN Return(Forbidden, TRUE, 1, active)
        ELSE IF existing = Null THEN Return(FeatureNotFound, TRUE, 2, active)
        ELSE Outcome(AfterRaw(ha, feature), (features \ {existing}) \cup {feature}, flags,
                     nextId, TRUE, 2, 1, ha, active, feature)

createToggleFeatureEndpoint(session, fid, bodyActive, hb, ha) ==
    LET b == runBeforeHook(hb)
        active == toggleInput(b, bodyActive)
        user == findUser(session)
        existing == findFeatureById(features, fid)
        feature == [existing EXCEPT !.active = active.b]
    IN  IF b.skip THEN Return(SkipWithData(b), FALSE, 0, Undef)
        ELSE IF ~HasUser(session) THEN Return(Unauthorized, TRUE, 0, active)
        ELSE IF FeaturesAdminDenied(user) THEN Return(Forbidden, TRUE, 1, active)
        ELSE IF existing = Null THEN Return(FeatureNotFound, TRUE, 2, active)
        ELSE Outcome(AfterRaw(ha, feature), (features \ {existing}) \cup {feature}, flags,
                     nextId, TRUE, 2, 1, ha, active, feature)

\* features.ts 558-623: every feature with active = true, whatever the caller's flags
featuresGetAvailableFeaturesEndpoint(session, hb, ha) ==
    LET b == runBeforeHook(hb)
        list == VList({f \in features : f.active})
    IN  IF b.skip THEN Return(SkipWithList(b), FALSE, 0, Undef)
        ELSE IF ~HasUser(session) THEN Return(Unauthorized, TRUE, 0, Undef)
        ELSE Outcome(AfterRaw(ha, list), features, flags, nextId,
                     TRUE, 1, 0, ha, Undef, list)

(***************************************************************************)
(* feature-flags.ts (organization-features.ts is the same code under the   *)
(* names setOrganizationFeature, ..., but for one where-clause, below)     *)
(***************************************************************************)
SetFeatureFlagInput(e) == [t |-> "obj", enabled |-> e]
FlagRow(id, org, fid, e) ==
    [t |-> "flag", id |-> id, organizationId |-> org, featureId |-> fid, enabled |-> e]
FlagWithDetails(g, f) ==
    [t |-> "flagWithDetails", id |-> g.id, organizationId |-> g.organizationId,
     featureId |-> g.featureId, enabled |-> g.enabled, feature |-> f]

\* the handler with the existing-flag check ahead of the feature checks
createSetFeatureFlagEndpoint_ConflictFirst(session, org, fid, body, hb, ha) ==
    LET b == runBeforeHook(hb)
        inputData == OrElse(b.data, body)
        user == findUser(session)
        feature == findFeatureById(features, fid)
        existingFeatureFlag == findFlag(flags, org, fid)
        featureFlag == FlagRow(nextId, org, fid, inputData.enabled.b)
        resultData == FlagWithDetails(featureFlag, feature)
    IN  IF b.skip THEN Return(SkipWithData(b), FALSE, 0, Undef)
        ELSE IF ~HasUser(session) THEN Return(Unauthorized, TRUE, 0, inputData)
        ELSE IF FlagsAdminDenied(user) THEN Return(Forbidden, TRUE, 1, inputData)
        ELSE IF existingFeatureFlag # Null
             THEN Return(JsonError(409, "Feature flag already exists"), TRUE, 2, inputData)
        ELSE IF feature = Null THEN Return(FeatureNotFound, TRUE, 3, inputData)
        ELSE IF ~feature.active
             THEN Return(JsonError(400, "Feature is not enabled globally"), TRUE, 3, inputData)
        ELSE IF org \notin Organizations
             THEN Return(JsonError(404, "Organization not found"), TRUE, 4, inputData)
        ELSE Outcome(AfterData(ha, resultData), features, flags \cup {featureFlag},
                     nextId + 1, TRUE, 5, 1, ha, inputData, resultData)

\* the handler that takes its row back when the after-hook reports an error
createSetFeatureFlagEndpoint_RollsBack(session, org, fid, body, hb, ha) ==
    LET b == runBeforeHook(hb)
        inputData == OrElse(b.data, body)
        user == findUser(session)
        feature == findFeatureById(features, fid)
        existingFeatureFlag == findFlag(flags, org, fid)
        featureFlag == FlagRow(nextId, org, fid, inputData.enabled.b)
        resultData == FlagWithDetails(featureFlag, feature)
    IN  IF b.skip THEN Return(SkipWithData(b), FALSE, 0, Undef)
        ELSE IF ~HasUser(session) THEN Return(Unauthorized, TRUE, 0, inputData)
        ELSE IF FlagsAdminDenied(user) THEN Return(Forbidden, TRUE, 1, inputData)
        ELSE IF feature = Null THEN Return(FeatureNotFound, TRUE, 2, inputData)
        ELSE IF ~feature.active
             THEN Return(JsonError(400, "Feature is not enabled globally"), TRUE, 2, inputData)
        ELSE IF org \notin Organizations
             THEN Return(JsonError(404, "Organization not found"), TRUE, 3, inputData)
        ELSE IF existingFeatureFlag # Null
             THEN Return(JsonError(409, "Feature flag already exists"), TRUE, 4, inputData)
        ELSE Outcome(AfterData(ha, resultData), features,
                     IF Truthy(runAfterHook(ha).error) THEN flags
                     ELSE flags \cup {featureFlag},
                     nextId + 1, TRUE, 5, 1, ha, inputData, resultData)

createSetFeatureFlagEndpoint(session, org, fid, body, hb, ha) ==
    LET b == runBeforeHook(hb)
        inputData == OrElse(b.data, body)
        user == findUser(session)
        feature == findFeatureById(features, fid)
        existingFeatureFlag == findFlag(flags, org, fid)
        featureFlag == FlagRow(nextId, org, fid, inputData.enabled.b)
        resultData == FlagWithDetails(featureFlag, feature)
    IN  IF b.skip THEN Return(SkipWithData(b), FALSE, 0, Undef)
        ELSE IF ~HasUser(session) THEN Return(Unauthorized, TRUE, 0, inputData)
        ELSE IF FlagsAdminDenied(user) THEN Return(Forbidden, TRUE, 1, inputData)
        ELSE IF feature = Null THEN Return(FeatureNotFound, TRUE, 2, inputData)
        ELSE IF ~feature.active
             THEN Return(JsonError(400, "Feature is not enabled globally"), TRUE, 2, inputData)
        ELSE IF org \notin Organizations
             THEN Return(JsonError(404, "Organization not found"), TRUE, 3, inputData)
        ELSE IF existingFeatureFlag # Null
             THEN Return(JsonError(409, "Feature flag already exists"), TRUE, 4, inputData)
        ELSE Outcome(AfterData(ha, resultData), features, flags \cup {featureFlag},
                     nextId + 1, TRUE, 5, 1, ha, inputData, resultData)

\* the handler that deletes the row ahead of its role check
createRemoveFeatureFlagEndpoint_DeletesFirst(session, org, fid, hb, ha) ==
    LET b == runBeforeHook(hb)
        user == findUser(session)
        existing == findFlag(flags, org, fid)
        remaining == IF existing = Null THEN flags ELSE {g \in flags : g.id # existing.id}
    IN  IF b.skip THEN Return(SkipWithSuccess(b), FALSE, 0, Undef)
        ELSE IF ~HasUser(session) THEN Return(Unauthorized, TRUE, 0, Undef)
        ELSE IF FlagsAdminDenied(user)
             THEN Outcome(Forbidden, features, remaining, nextId, TRUE, 2, 0, NotCalled,
                          Undef, Undef)
        ELSE IF existing = Null
             THEN Return(JsonError(404, "Feature flag not found"), TRUE, 2, Undef)
        ELSE Outcome(AfterData(ha, SuccessTrue), features,
                     {g \in flags : g.id # existing.id},
                     nextId, TRUE, 2, 1, ha, Undef, SuccessTrue)

createRemoveFeatureFlagEndpoint(session, org, fid, hb, ha) ==
    LET b == runBeforeHook(hb)
        user == findUser(session)
        existing == findFlag(flags, org, fid)
    IN  IF b.skip THEN Return(SkipWithSuccess(b), FALSE, 0, Undef)
        ELSE IF ~HasUser(session) THEN Return(Unauthorized, TRUE, 0, Undef)
        ELSE IF FlagsAdminDenied(user) THEN Return(Forbidden, TRUE, 1, Undef)
        ELSE IF existing = Null
             THEN Return(JsonError(404, "Feature flag not found"), TRUE, 2, Undef)
        ELSE Outcome(AfterData(ha, SuccessTrue), features,
                     {g \in flags : g.id # existing.id},
                     nextId, TRUE, 2, 1, ha, Undef, SuccessTrue)

\* adapter.findMany({model: "feature", where: id in ids, <field> = true}); a clause on a
\* field the rows do not have matches no row
findFeaturesIn(ids, field) ==
    {f \in features : f.id \in ids /\ field \in DOMAIN f /\ f[field] = TRUE}

\* featureFlags.filter(ff => featureMap.has(ff.featureId)).map(ff => ({..., feature}))
joinFlags(gs, fs) ==
    {FlagWithDetails(g, CHOOSE f \in fs : f.id = g.featureId) :
        g \in {h \in gs : \E f \in fs : f.id = h.featureId}}

\* the enabled flags of org joined with their features that pass the filter on `field`
enabledFeatureFlags(org, field) ==
    LET featureFlags == findEnabledFlags(flags, org)
    IN  joinFlags(featureFlags, findFeaturesIn({g.featureId : g \in featureFlags}, field))

\* the handler that answers an organization without enabled flags ahead of the
\* membership lookup
createGetFeatureFlagsEndpoint_EmptyFirst(session, org, hb, ha) ==
    LET b == runBeforeHook(hb)
        list == VList(enabledFeatureFlags(org, "active"))
    IN  IF b.skip THEN Return(SkipWithList(b), FALSE, 0, Undef)
        ELSE IF ~HasUser(session) THEN Return(Unauthorized, TRUE, 0, Undef)
        ELSE IF findEnabledFlags(flags, org) = {}
             THEN Return(JsonData(EmptyList), TRUE, 1, Undef)
        ELSE IF ~findMember(org, session) THEN Return(NotMember, TRUE, 2, Undef)
        ELSE Outcome(AfterData(ha, list), features, flags, nextId,
                     TRUE, 3, 0, ha, Undef, list)

createGetFeatureFlagsEndpoint(session, org, hb, ha) ==
    LET b == runBeforeHook(hb)
        list == VList(enabledFeatureFlags(org, "active"))
    IN  IF b.skip THEN Return(SkipWithList(b), FALSE, 0, Undef)
        ELSE IF ~HasUser(session) THEN Return(Unauthorized, TRUE, 0, Undef)
        ELSE IF ~findMember(org, session) THEN Return(NotMember, TRUE, 1, Undef)
        ELSE Outcome(AfterData(ha, list), features, flags, nextId,
                     TRUE, 3, 0, ha, Undef, list)

\* field: "active" in feature-flags.ts (line 527), "enabled" in organization-features.ts.
\* The feature model has no field "enabled": the adapter either matches no row or
\* rejects the query (rejects), and the handler catches nothing.
createGetAvailableFeaturesEndpoint(session, field, rejects, hb, ha) ==
    LET b == runBeforeHook(hb)
        activeOrganizationId == session.activeOrganizationId
        list == VList(enabledFeatureFlags(activeOrganizationId.s, field))
    IN  IF b.skip THEN Return(SkipWithList(b), FALSE, 0, Undef)
        ELSE IF ~HasUser(session) THEN Return(Unauthorized, TRUE, 0, Undef)
        ELSE IF ~Truthy(activeOrganizationId) THEN Return(JsonData(EmptyList), TRUE, 0, Undef)
        ELSE IF ~findMember(activeOrganizationId.s, session)
             THEN Return(JsonData(EmptyList), TRUE, 1, Undef)
        ELSE IF field # "active" /\ rejects
             THEN Return(JsonError(500, "Internal Server Error"), TRUE, 3, Undef)
        ELSE Outcome(AfterData(ha, list), features, flags, nextId,
                     TRUE, 3, 0, ha, Undef, list)

(***************************************************************************)
(* The first generation of the flag endpoints (no hooks)                   *)
(***************************************************************************)
\* getOrganizationFeaturesEndpoint: the features are fetched by id alone
getOrganizationFeaturesEndpoint(session, org) ==
    LET orgFeatures == findEnabledFlags(flags, org)
        fs == {f \in features : f.id \in {g.featureId : g \in orgFeatures}}
        enabledFeatures == VList(joinFlags(orgFeatures, fs))
    IN  IF ~HasUser(session) THEN Return(Unauthorized, TRUE, 0, Undef)
        ELSE IF ~findMember(org, session) THEN Return(NotMember, TRUE, 1, Undef)
        ELSE Outcome(JsonData(enabledFeatures), features, flags, nextId,
                     TRUE, 3, 0, NotCalled, Undef, enabledFeatures)

(***************************************************************************)
(* Requests                                                                *)
(***************************************************************************)
NoArgs == [org |-> "-", fid |-> 0, body |-> Undef]

\* overlapping requests: the handlers in flight, and a slot with none
Procs == {1, 2}
\* log: the hook invocations and store calls of the handler so far, in order;
\* hasBefore, hasAfter: whether the operation has the hook registered
NoProc ==
    [op |-> "none", pc |-> "idle", name |-> Undef, org |-> "-", fid |-> 0,
     enabled |-> FALSE, existing |-> Undef, status |-> 0,
     log |-> <<>>, hasBefore |-> FALSE, hasAfter |-> FALSE, active |-> FALSE]
Args(org, fid, body) == [org |-> org, fid |-> fid, body |-> body]

\* no request in progress
NoRequest ==
    [op |-> "none", session |-> NoSession, args |-> NoArgs, before |-> NoHook,
     after |-> NotCalled, ran |-> FALSE, reads |-> 0, writes |-> 0, input |-> Undef,
     own |-> Undef, resp |-> Json(0, "none", Undef)]

\* no request is being served
Idle == last = NoRequest

\* one request served: the store moves to the handler's outcome, `last` records it
Serve(op, session, args, hb, out, maxRows) ==
    /\ out.nextId <= maxRows + 1
    /\ features' = out.features
    /\ flags' = out.flags
    /\ nextId' = out.nextId
    /\ UNCHANGED <<cascade, uniqueNames, procs>>
    /\ flagHistory' =
         LET pair == <<args.org, args.fid>>
         IN  IF op = "setFeatureFlag" /\ out.writes = 1
             THEN [set |-> flagHistory.set \cup {pair},
                   removed |-> flagHistory.removed \ {pair}]
             ELSE IF op = "removeFeatureFlag" /\ out.writes = 1
             THEN [set |-> flagHistory.set \ {pair},
                   removed |-> flagHistory.removed \cup {pair}]
             ELSE flagHistory
    /\ last' = [op |-> op, session |-> session, args |-> args, before |-> hb,
                after |-> out.after, ran |-> out.ran, reads |-> out.reads,
                writes |-> out.writes, input |-> out.input, own |-> out.own,
                resp |-> out.resp]

\* the response is sent and the request is over: a handler keeps nothing between requests
Respond ==
    /\ last # NoRequest
    /\ last' = NoRequest
    /\ UNCHANGED <<features, flags, nextId, cascade, flagHistory, uniqueNames, procs>>

\* request payloads
Names == {"n1", "n2"}
CreateBodies ==
    {CreateFeatureInput(VStr(n), VStr("D"), Undef, a) :
        n \in Names, a \in {Undef, VBool(FALSE)}}
    \cup {CreateFeatureInput(Undef, VStr("D"), Undef, Undef)}
UpdateBodies == {UpdateFeatureInput(Undef, Undef, a) : a \in {Undef, VBool(FALSE)}}
Booleans == {VBool(TRUE), VBool(FALSE)}
SetBodies == {SetFeatureFlagInput(e) : e \in Booleans}

\* what a registered hook may return, by the types of hooks.ts
HookErrors == {Err("hook error", VNum(422)), Err("hook error", Undef)}
Custom == [t |-> "obj", custom |-> TRUE]
BeforeReturns(D) ==
    {BeforeHookResult(sk, d, e) :
        sk \in {Undef, VBool(TRUE), VBool(FALSE)}, d \in D \cup {Undef},
        e \in HookErrors \cup {Undef}}
AfterReturns(D) ==
    {AfterHookResult(d, e) : d \in D \cup {Undef}, e \in HookErrors \cup {Undef}}

\* the hooks of one plugin instance: for each operation, what its before- and
\* after-hook may return; {NoHook} when none is registered
NoHooks ==
    [sessions |-> Sessions, creates |-> CreateBodies, updates |-> UpdateBodies,
     before |-> [create |-> {NoHook}, update |-> {NoHook}, toggle |-> {NoHook},
                 set |-> {NoHook}, other |-> {NoHook}],
     after |-> [feature |-> {NoHook}, list |-> {NoHook}, success |-> {NoHook},
                flag |-> {NoHook}]]

\* BeforeHookResult<CreateFeatureInput>, <UpdateFeatureInput>, <boolean>,
\* <SetFeatureFlagInput>, BeforeHookResult (unknown) for the other operations;
\* AfterHookResult<Feature>, <Feature[]> and <FlagWithDetails[]>, <{success: boolean}>,
\* <FlagWithDetails>
AllHooks ==
    [sessions |-> FewSessions, creates |-> CreateBodies, updates |-> UpdateBodies,
     before |->
        [create |-> BeforeReturns({CreateFeatureInput(VStr("n2"), VStr("H"), Undef,
                                                      VBool(FALSE))}),
         update |-> BeforeReturns({UpdateFeatureInput(Undef, Undef, VBool(TRUE))}),
         toggle |-> BeforeReturns(Booleans),
         set |-> BeforeReturns({SetFeatureFlagInput(VBool(FALSE))}),
         other |-> BeforeReturns({Custom, VNum(0)})],
     after |->
        [feature |-> AfterReturns({FeatureRow(0, VStr("h"), VStr("H"), Null, TRUE)}),
         list |-> AfterReturns({EmptyList}),
         success |-> AfterReturns({[t |-> "obj", success |-> FALSE]}),
         flag |-> AfterReturns({FlagWithDetails(FlagRow(0, "o1", 0, TRUE),
                                  FeatureRow(0, VStr("h"), VStr("H"), Null, TRUE))})]]

(***************************************************************************)
(* The nine operations, and the first-generation listing.  H: the hooks    *)
(* registered; n: the rows the store may ever create                       *)
(***************************************************************************)
CreateFeature(H, n) ==
    /\ Idle
    /\ \E session \in H.sessions, body \in H.creates,
       hb \in H.before.create, ha \in H.after.feature :
        Serve("createFeature", session, Args("-", 0, body), hb,
              createCreateFeatureEndpoint(session, body, hb, ha), n)

ListFeatures(H, n) ==
    /\ Idle
    /\ \E session \in H.sessions, hb \in H.before.other, ha \in H.after.list :
        Serve("listFeatures", session, NoArgs, hb,
              createListFeaturesEndpoint(session, hb, ha), n)

UpdateFeature(H, n) ==
    /\ Idle
    /\ \E session \in H.sessions, fid \in 1..n, body \in H.updates,
       hb \in H.before.update, ha \in H.after.feature :
        Serve("updateFeature", session, Args("-", fid, body), hb,
              createUpdateFeatureEndpoint(session, fid, body, hb, ha), n)

DeleteFeature(H, n) ==
    /\ Idle
    /\ \E session \in H.sessions, fid \in 1..n, hb \in H.before.other, ha \in H.after.success :
        Serve("deleteFeature", session, Args("-", fid, Undef), hb,
              createDeleteFeatureEndpoint(session, fid, hb, ha), n)

ToggleFeature(H, n) ==
    /\ Idle
    /\ \E session \in H.sessions, fid \in 1..n, active \in Booleans,
       hb \in H.before.toggle, ha \in H.after.feature :
        Serve("toggleFeature", session, Args("-", fid, active), hb,
              createToggleFeatureEndpoint(session, fid, active, hb, ha), n)

SetFeatureFlag(H, n) ==
    /\ Idle
    /\ \E session \in H.sessions, org \in OrgIds, fid \in 1..n, body \in SetBodies,
       hb \in H.before.set, ha \in H.after.flag :
        Serve("setFeatureFlag", session, Args(org, fid, body), hb,
              createSetFeatureFlagEndpoint(session, org, fid, body, hb, ha), n)

RemoveFeatureFlag(H, n) ==
    /\ Idle
    /\ \E session \in H.sessions, org \in Organizations, fid \in 1..n,
       hb \in H.before.other, ha \in H.after.success :
        Serve("removeFeatureFlag", session, Args(org, fid, Undef), hb,
              createRemoveFeatureFlagEndpoint(session, org, fid, hb, ha), n)

GetFeatureFlags(H, n) ==
    /\ Idle
    /\ \E session \in H.sessions, org \in Organizations,
       hb \in H.before.other, ha \in H.after.list :
        Serve("getFeatureFlags", session, Args(org, 0, Undef), hb,
              createGetFeatureFlagsEndpoint(session, org, hb, ha), n)

\* feature-flags.ts
GetAvailableFeatures(H, n) ==
    /\ Idle
    /\ \E session \in H.sessions, hb \in H.before.other, ha \in H.after.list :
        Serve("getAvailableFeatures", session, NoArgs, hb,
              createGetAvailableFeaturesEndpoint(session, "active", FALSE, hb, ha), n)

\* organization-features.ts
GetAvailableOrganizationFeatures(H, n) ==
    /\ Idle
    /\ \E session \in H.sessions, hb \in H.before.other, ha \in H.after.list,
          rejects \in BOOLEAN :
        Serve("getAvailableFeatures/organization-features", session, NoArgs, hb,
              createGetAvailableFeaturesEndpoint(session, "enabled", rejects, hb, ha), n)

\* features.ts
GetAvailableFeaturesOfFeatures(H, n) ==
    /\ Idle
    /\ \E session \in H.sessions, hb \in H.before.other, ha \in H.after.list :
        Serve("getAvailableFeatures/features", session, NoArgs, hb,
              featuresGetAvailableFeaturesEndpoint(session, hb, ha), n)

GetOrganizationFeatures(n) ==
    /\ Idle
    /\ \E session \in Sessions, org \in Organizations :
        Serve("getOrganizationFeatures/first", session, Args(org, 0, Undef), NoHook,
              getOrganizationFeaturesEndpoint(session, org), n)

Init ==
    /\ features = {}
    /\ flags = {}
    /\ nextId = 1
    /\ cascade \in BOOLEAN
    /\ flagHistory = [set |-> {}, removed |-> {}]
    /\ last = NoRequest
    /\ uniqueNames = FALSE
    /\ procs = [p \in Procs |-> NoProc]

\* the plugin constructed without hooks
Next ==
    \/ CreateFeature(NoHooks, MaxRows)
    \/ ListFeatures(NoHooks, MaxRows)
    \/ UpdateFeature(NoHooks, MaxRows)
    \/ DeleteFeature(NoHooks, MaxRows)
    \/ ToggleFeature(NoHooks, MaxRows)
    \/ SetFeatureFlag(NoHooks, MaxRows)
    \/ RemoveFeatureFlag(NoHooks, MaxRows)
    \/ GetFeatureFlags(NoHooks, MaxRows)
    \/ GetAvailableFeatures(NoHooks, MaxRows)
    \/ GetAvailableOrganizationFeatures(NoHooks, MaxRows)
    \/ GetAvailableFeaturesOfFeatures(NoHooks, MaxRows)
    \/ GetOrganizationFeatures(MaxRows)
    \/ Respond

Spec == Init /\ [][Next]_vars

\* the plugin constructed with a hook on every operation
NextHooks ==
    \/ CreateFeature(AllHooks, HookMaxRows)
    \/ ListFeatures(AllHooks, HookMaxRows)
    \/ UpdateFeature(AllHooks, HookMaxRows)
    \/ DeleteFeature(AllHooks, HookMaxRows)
    \/ ToggleFeature(AllHooks, HookMaxRows)
    \/ SetFeatureFlag(AllHooks, HookMaxRows)
    \/ RemoveFeatureFlag(AllHooks, HookMaxRows)
    \/ GetFeatureFlags(AllHooks, HookMaxRows)
    \/ GetAvailableFeatures(AllHooks, HookMaxRows)
    \/ GetAvailableOrganizationFeatures(AllHooks, HookMaxRows)
    \/ GetAvailableFeaturesOfFeatures(AllHooks, HookMaxRows)
    \/ Respond

InitHooks == Init /\ cascade

SpecHooks == InitHooks /\ [][NextHooks]_vars

(***************************************************************************)
(* Editing features: create-feature, update-feature and toggle-feature     *)
(* with every combination of present, null, false and omitted fields in    *)
(* the input, and an updateFeature.before hook that passes the input on or *)
(* rewrites it.                                                            *)
(***************************************************************************)
EditMaxRows == 2

EditBodies ==
    {UpdateFeatureInput(dn, d, a) :
        dn \in {Undef, VStr("E")},
        d \in {Undef, Null, VStr("x")},
        a \in {Undef, VBool(FALSE), VBool(TRUE)}}

\* an updateFeature.before hook whose rewritten input carries a name
RenamingHook ==
    BeforeHookResult(Undef, CreateFeatureInput(VStr("n2"), VStr("H"), Undef, Undef), Undef)

EditCreateBodies ==
    {CreateFeatureInput(n, dn, Undef, a) :
        n \in {Undef, VStr("n1"), VStr("n2")},
        dn \in {Undef, VStr("D")},
        a \in {Undef, VBool(FALSE), VBool(TRUE)}}
    \cup {CreateFeatureInput(VStr(""), VStr("D"), Undef, Undef)}

Editing ==
    [sessions |-> {Session("ua", Null), Session("um", VStr("o1"))},
     creates |-> EditCreateBodies, updates |-> EditBodies,
     before |->
        [create |-> {NoHook},
         update |-> {BeforeHookResult(Undef, Undef, Undef),
                     BeforeHookResult(Undef, UpdateFeatureInput(Undef, Null, Undef), Undef),
                     RenamingHook},
         toggle |-> {NoHook}, set |-> {NoHook}, other |-> {NoHook}],
     after |-> [feature |-> {NoHook}, list |-> {NoHook}, success |-> {NoHook},
                flag |-> {NoHook}]]

NextEdit ==
    \/ CreateFeature(Editing, EditMaxRows)
    \/ UpdateFeature(Editing, EditMaxRows)
    \/ ToggleFeature(Editing, EditMaxRows)
    \/ Respond

SpecEdit == Init /\ [][NextEdit]_vars

(***************************************************************************)
(* Overlapping requests.  A handler is async: between two awaited adapter  *)
(* calls another request's handler may run.  One step is one awaited call  *)
(* on the feature or flag table together with the synchronous code up to   *)
(* the next one; the lookups in the user and organization tables, which no *)
(* handler writes, are taken with the step before them.  The callers are   *)
(* administrators and no hook is registered.                               *)
(***************************************************************************)
\* a store that enforces the constraint in every deployment
insertFeatureRejected_Enforced(fs, row) == \E f \in fs : f.name = row.name

\* adapter.create({model: "feature", data}): a store that enforces unique: true on
\* name rejects a second row with the name
insertFeatureRejected(fs, row) == uniqueNames /\ \E f \in fs : f.name = row.name

\* a store that keeps one flag row per pair
insertFlag_OnePerPair(gs, row) ==
    IF \E g \in gs : g.organizationId = row.organizationId /\ g.featureId = row.featureId
    THEN gs ELSE gs \cup {row}

\* adapter.create({model: "featureFlag", data}): the schema declares no uniqueness
insertFlag(gs, row) == gs \cup {row}

Step(p, next) ==
    /\ procs' = [procs EXCEPT ![p] = next]
    /\ UNCHANGED <<cascade, flagHistory, last, uniqueNames>>

\* features.ts 24-79: body read, session, role and validation pass
RaceCreateFeatureCall(p) ==
    /\ procs[p] = NoProc
    /\ \E n \in Names :
        Step(p, [NoProc EXCEPT !.op = "createFeature", !.pc = "findExisting",
                               !.name = VStr(n)])
    /\ UNCHANGED <<features, flags, nextId>>

\* features.ts 81-99: const existing = await adapter.findOne(...); if (existing) 409
RaceCreateFeatureFindExisting(p) ==
    /\ procs[p].op = "createFeature" /\ procs[p].pc = "findExisting"
    /\ LET existing == findFeatureByName(features, procs[p].name)
       IN  Step(p, [procs[p] EXCEPT !.existing = existing,
                                    !.pc = IF existing # Null THEN "done" ELSE "create",
                                    !.status = IF existing # Null THEN 409 ELSE 0,
                                    !.log = Append(@, "store")])
    /\ UNCHANGED <<features, flags, nextId>>

\* features.ts 101-129: const feature = await adapter.create(...); respond
RaceCreateFeatureCreate(p, n) ==
    /\ procs[p].op = "createFeature" /\ procs[p].pc = "create"
    /\ nextId <= n
    /\ LET feature == FeatureRow(nextId, procs[p].name, VStr("D"), Null, TRUE)
       IN  IF insertFeatureRejected(features, feature)
           THEN /\ Step(p, [procs[p] EXCEPT !.pc = "done", !.status = 500,
                                             !.log = Append(@, "store")])
                /\ UNCHANGED <<features, flags, nextId>>
           ELSE /\ features' = features \cup {feature}
                /\ nextId' = nextId + 1
                /\ Step(p, [procs[p] EXCEPT !.pc = "done", !.status = 200,
                                             !.log = Append(@, "store")])
                /\ UNCHANGED flags

\* feature-flags.ts 24-75: params and body read, session and role pass
RaceSetFeatureFlagCall(p, n, orgs) ==
    /\ procs[p] = NoProc
    /\ \E org \in orgs, fid \in 1..n, e \in BOOLEAN :
        Step(p, [NoProc EXCEPT !.op = "setFeatureFlag", !.pc = "findFeature",
                               !.org = org, !.fid = fid, !.enabled = e])
    /\ UNCHANGED <<features, flags, nextId>>

\* feature-flags.ts 77-117: feature lookup, 404, 400; the organization exists
RaceSetFeatureFlagFindFeature(p) ==
    /\ procs[p].op = "setFeatureFlag" /\ procs[p].pc = "findFeature"
    /\ LET feature == findFeatureById(features, procs[p].fid)
       IN  Step(p, IF feature = Null
                   THEN [procs[p] EXCEPT !.pc = "done", !.status = 404,
                                         !.log = Append(@, "store")]
                   ELSE IF ~feature.active
                   THEN [procs[p] EXCEPT !.pc = "done", !.status = 400,
                                         !.log = Append(@, "store")]
                   ELSE [procs[p] EXCEPT !.pc = "findExisting",
                                         !.log = Append(@, "store")])
    /\ UNCHANGED <<features, flags, nextId>>

\* feature-flags.ts 119-142: existingFeatureFlag lookup, 409
RaceSetFeatureFlagFindExisting(p) ==
    /\ procs[p].op = "setFeatureFlag" /\ procs[p].pc = "findExisting"
    /\ LET existing == findFlag(flags, procs[p].org, procs[p].fid)
       IN  Step(p, [procs[p] EXCEPT !.existing = existing,
                                    !.pc = IF existing # Null THEN "done" ELSE "create",
                                    !.status = IF existing # Null THEN 409 ELSE 0,
                                    !.log = Append(@, "store")])
    /\ UNCHANGED <<features, flags, nextId>>

\* feature-flags.ts 144-151: adapter.create of the flag row.  When the feature is gone
\* by now, a store that enforces the schema's reference either takes the row or
\* rejects it (rejects), and the handler catches nothing.
RaceSetFeatureFlagCreate(p, n) ==
    /\ procs[p].op = "setFeatureFlag" /\ procs[p].pc = "create"
    /\ nextId <= n
    /\ \E rejects \in BOOLEAN :
        IF rejects /\ cascade /\ findFeatureById(features, procs[p].fid) = Null
        THEN /\ Step(p, [procs[p] EXCEPT !.pc = "done", !.status = 500,
                                          !.log = Append(@, "store")])
             /\ UNCHANGED <<features, flags, nextId>>
        ELSE /\ flags' = insertFlag(flags, FlagRow(nextId, procs[p].org, procs[p].fid,
                                                   procs[p].enabled))
             /\ nextId' = nextId + 1
             /\ Step(p, [procs[p] EXCEPT !.pc = "fetchDetails",
                                          !.log = Append(@, "store")])
             /\ UNCHANGED features

\* feature-flags.ts 153-183: featureDetails lookup for the response; with no after-hook
\* registered runAfterHook returns at once and the handler responds
RaceSetFeatureFlagFetchDetails(p) ==
    /\ procs[p].op = "setFeatureFlag" /\ procs[p].pc = "fetchDetails"
    /\ Step(p, [procs[p] EXCEPT !.pc = IF procs[p].hasAfter THEN "afterHook" ELSE "done",
                                 !.status = 200,
                                 !.log = Append(@, "store")])
    /\ UNCHANGED <<features, flags, nextId>>

\* the response is sent; the slot is free for the next request
RaceReturn(p) ==
    /\ procs[p].pc = "done"
    /\ Step(p, NoProc)
    /\ UNCHANGED <<features, flags, nextId>>

InitRace ==
    /\ features = {}
    /\ flags = {}
    /\ nextId = 1
    /\ cascade = TRUE
    /\ flagHistory = [set |-> {}, removed |-> {}]
    /\ last = NoRequest
    /\ uniqueNames \in BOOLEAN
    /\ procs = [p \in Procs |-> NoProc]

NextRace ==
    \E p \in Procs :
        \/ RaceCreateFeatureCall(p)
        \/ RaceCreateFeatureFindExisting(p)
        \/ RaceCreateFeatureCreate(p, RaceMaxRows)
        \/ RaceSetFeatureFlagCall(p, RaceMaxRows, Organizations)
        \/ RaceSetFeatureFlagFindFeature(p)
        \/ RaceSetFeatureFlagFindExisting(p)
        \/ RaceSetFeatureFlagCreate(p, RaceMaxRows)
        \/ RaceSetFeatureFlagFetchDetails(p)
        \/ RaceReturn(p)

SpecRace == InitRace /\ [][NextRace]_vars

(***************************************************************************)
(* Overlapping requests that delete: delete-feature and remove-flag next   *)
(* to create-feature and set-flag.                                         *)
(***************************************************************************)
UndoMaxRows == 3

\* features.ts 346-390: params read, session and role pass
RaceDeleteFeatureCall(p, n) ==
    /\ procs[p] = NoProc
    /\ \E fid \in 1..n :
        Step(p, [NoProc EXCEPT !.op = "deleteFeature", !.pc = "findExisting",
                               !.fid = fid])
    /\ UNCHANGED <<features, flags, nextId>>

\* features.ts 392-407: const existing = await adapter.findOne(...); if (!existing) 404
RaceDeleteFeatureFindExisting(p) ==
    /\ procs[p].op = "deleteFeature" /\ procs[p].pc = "findExisting"
    /\ LET existing == findFeatureById(features, procs[p].fid)
       IN  Step(p, [procs[p] EXCEPT !.existing = existing,
                                    !.pc = IF existing = Null THEN "done" ELSE "delete",
                                    !.status = IF existing = Null THEN 404 ELSE 0,
                                    !.log = Append(@, "store")])
    /\ UNCHANGED <<features, flags, nextId>>

\* features.ts 409-438: await adapter.delete({model: "feature", where: id}); respond
RaceDeleteFeatureDelete(p) ==
    /\ procs[p].op = "deleteFeature" /\ procs[p].pc = "delete"
    /\ features' = {f \in features : f.id # procs[p].fid}
    /\ flags' = flagsAfterFeatureDelete(procs[p].fid)
    /\ Step(p, [procs[p] EXCEPT !.pc = "done", !.status = 200,
                                 !.log = Append(@, "store")])
    /\ UNCHANGED nextId

\* feature-flags.ts 200-243: params read, session and role pass
RaceRemoveFeatureFlagCall(p, n, orgs) ==
    /\ procs[p] = NoProc
    /\ \E org \in orgs, fid \in 1..n :
        Step(p, [NoProc EXCEPT !.op = "removeFeatureFlag", !.pc = "findExisting",
                               !.org = org, !.fid = fid])
    /\ UNCHANGED <<features, flags, nextId>>

\* feature-flags.ts 245-268: const existing = await adapter.findOne(...); 404
RaceRemoveFeatureFlagFindExisting(p) ==
    /\ procs[p].op = "removeFeatureFlag" /\ procs[p].pc = "findExisting"
    /\ LET existing == findFlag(flags, procs[p].org, procs[p].fid)
       IN  Step(p, [procs[p] EXCEPT !.existing = existing,
                                    !.pc = IF existing = Null THEN "done" ELSE "delete",
                                    !.status = IF existing = Null THEN 404 ELSE 0,
                                    !.log = Append(@, "store")])
    /\ UNCHANGED <<features, flags, nextId>>

\* the delete addressed by the compound key
RaceRemoveFeatureFlagDelete_ByPair(p) ==
    /\ procs[p].op = "removeFeatureFlag" /\ procs[p].pc = "delete"
    /\ flags' = {g \in flags : ~(g.organizationId = procs[p].org
                                  /\ g.featureId = procs[p].fid)}
    /\ Step(p, [procs[p] EXCEPT !.pc = "done", !.status = 200,
                                 !.log = Append(@, "store")])
    /\ UNCHANGED <<features, nextId>>

\* feature-flags.ts 270-300: await adapter.delete({model: "featureFlag", where: id =
\* existing.id}), which deletes no row when the row is gone; respond
RaceRemoveFeatureFlagDelete(p) ==
    /\ procs[p].op = "removeFeatureFlag" /\ procs[p].pc = "delete"
    /\ flags' = {g \in flags : g.id # procs[p].existing.id}
    /\ Step(p, [procs[p] EXCEPT !.pc = "done", !.status = 200,
                                 !.log = Append(@, "store")])
    /\ UNCHANGED <<features, nextId>>

NextUndo ==
    \E p \in Procs :
        \/ RaceCreateFeatureCall(p)
        \/ RaceCreateFeatureFindExisting(p)
        \/ RaceCreateFeatureCreate(p, UndoMaxRows)
        \/ RaceSetFeatureFlagCall(p, UndoMaxRows, {"o1"})
        \/ RaceSetFeatureFlagFindFeature(p)
        \/ RaceSetFeatureFlagFindExisting(p)
        \/ RaceSetFeatureFlagCreate(p, UndoMaxRows)
        \/ RaceSetFeatureFlagFetchDetails(p)
        \/ RaceDeleteFeatureCall(p, UndoMaxRows)
        \/ RaceDeleteFeatureFindExisting(p)
        \/ RaceDeleteFeatureDelete(p)
        \/ RaceRemoveFeatureFlagCall(p, UndoMaxRows, {"o1"})
        \/ RaceRemoveFeatureFlagFindExisting(p)
        \/ RaceRemoveFeatureFlagDelete(p)
        \/ RaceReturn(p)

SpecUndo == InitRace /\ [][NextUndo]_vars

(***************************************************************************)
(* Overlapping requests that switch a feature: toggle-feature and          *)
(* update-feature next to create-feature and set-flag.                     *)
(***************************************************************************)
SwitchMaxRows == 2

\* adapter.update({model: "feature", where: id = fid, update}): the rows after it; no
\* row changes when none has the id
featuresAfterUpdate(fs, fid, inputData) ==
    {IF f.id = fid THEN updatedFeature(f, inputData) ELSE f : f \in fs}

\* features.ts 452-501: params and body read, session and role pass
RaceToggleFeatureCall(p, n) ==
    /\ procs[p] = NoProc
    /\ \E fid \in 1..n, a \in BOOLEAN :
        Step(p, [NoProc EXCEPT !.op = "toggleFeature", !.pc = "findExisting",
                               !.fid = fid, !.active = a])
    /\ UNCHANGED <<features, flags, nextId>>

\* features.ts 228-273: params and body read, session and role pass
RaceUpdateFeatureCall(p, n) ==
    /\ procs[p] = NoProc
    /\ \E fid \in 1..n, a \in BOOLEAN :
        Step(p, [NoProc EXCEPT !.op = "updateFeature", !.pc = "findExisting",
                               !.fid = fid, !.active = a])
    /\ UNCHANGED <<features, flags, nextId>>

\* features.ts 503-518 (toggle), 275-291 (update): existing = await adapter.findOne; 404
RaceSwitchFindExisting(p) ==
    /\ procs[p].op \in {"toggleFeature", "updateFeature"}
    /\ procs[p].pc = "findExisting"
    /\ LET existing == findFeatureById(features, procs[p].fid)
       IN  Step(p, [procs[p] EXCEPT !.existing = existing,
                                    !.pc = IF existing = Null THEN "done" ELSE "update",
                                    !.status = IF existing = Null THEN 404 ELSE 0,
                                    !.log = Append(@, "store")])
    /\ UNCHANGED <<features, flags, nextId>>

\* features.ts 520-553 (toggle: update {active}), 293-332 (update: the given fields):
\* await adapter.update; respond
RaceSwitchUpdate(p) ==
    /\ procs[p].op \in {"toggleFeature", "updateFeature"}
    /\ procs[p].pc = "update"
    /\ features' = featuresAfterUpdate(features, procs[p].fid,
                       UpdateFeatureInput(Undef, Undef, VBool(procs[p].active)))
    /\ Step(p, [procs[p] EXCEPT !.pc = "done", !.status = 200,
                                 !.log = Append(@, "store")])
    /\ UNCHANGED <<flags, nextId>>

NextSwitch ==
    \E p \in Procs :
        \/ RaceCreateFeatureCall(p)
        \/ RaceCreateFeatureFindExisting(p)
        \/ RaceCreateFeatureCreate(p, SwitchMaxRows)
        \/ RaceSetFeatureFlagCall(p, SwitchMaxRows, {"o1"})
        \/ RaceSetFeatureFlagFindFeature(p)
        \/ RaceSetFeatureFlagFindExisting(p)
        \/ RaceSetFeatureFlagCreate(p, SwitchMaxRows)
        \/ RaceSetFeatureFlagFetchDetails(p)
        \/ RaceToggleFeatureCall(p, SwitchMaxRows)
        \/ RaceUpdateFeatureCall(p, SwitchMaxRows)
        \/ RaceSwitchFindExisting(p)
        \/ RaceSwitchUpdate(p)
        \/ RaceReturn(p)

SpecSwitch == InitRace /\ [][NextSwitch]_vars

(***************************************************************************)
(* The pipeline of one operation, step by step: set-flag with its hooks.   *)
(* A hook is asynchronous code of the host application: it is invoked,     *)
(* other handlers may run while it works, and it returns.  The handler     *)
(* awaits it.                                                              *)
(***************************************************************************)
PipeMaxRows == 2

PipeBeforeReturns ==
    {BeforeHookResult(Undef, Undef, Undef),
     BeforeHookResult(VBool(TRUE), Undef, Undef),
     BeforeHookResult(Undef, Undef, Err("hook error", Undef))}
PipeAfterReturns ==
    {AfterHookResult(Undef, Undef), AfterHookResult(Undef, Err("hook error", Undef))}

\* feature-flags.ts 24-30: params, body and session read; hook-helpers.ts 14-16: with no
\* before-hook registered runBeforeHook returns at once
PipeSetFeatureFlagCall(p, n) ==
    /\ procs[p] = NoProc
    /\ \E fid \in 1..n, hb, ha \in BOOLEAN :
        Step(p, [NoProc EXCEPT !.op = "setFeatureFlag",
                               !.pc = IF hb THEN "beforeHook" ELSE "findUser",
                               !.org = "o1", !.fid = fid, !.enabled = TRUE,
                               !.hasBefore = hb, !.hasAfter = ha])
    /\ UNCHANGED <<features, flags, nextId>>

\* a handler that starts the hook and goes on without awaiting it
PipeBeforeHookStart_NotAwaited(p) ==
    /\ procs[p].pc = "beforeHook"
    /\ Step(p, [procs[p] EXCEPT !.pc = "findUser", !.log = Append(@, "before.start")])
    /\ UNCHANGED <<features, flags, nextId>>

\* hook-helpers.ts 18: hook(...args) is invoked and awaited
PipeBeforeHookStart(p) ==
    /\ procs[p].pc = "beforeHook"
    /\ Step(p, [procs[p] EXCEPT !.pc = "beforeHookRunning",
                                 !.log = Append(@, "before.start")])
    /\ UNCHANGED <<features, flags, nextId>>

\* hook-helpers.ts 18-27, feature-flags.ts 40-48: the hook returns; skip or error ends
\* the request
PipeBeforeHookEnd(p) ==
    /\ procs[p].pc = "beforeHookRunning"
    /\ \E h \in PipeBeforeReturns :
        LET b == runBeforeHook(h)
        IN  Step(p, IF b.skip
                    THEN [procs[p] EXCEPT !.pc = "done", !.status = SkipWithData(b).status,
                                          !.log = Append(@, "before.end")]
                    ELSE [procs[p] EXCEPT !.pc = "findUser",
                                          !.log = Append(@, "before.end")])
    /\ UNCHANGED <<features, flags, nextId>>

\* feature-flags.ts 53-75: session present; the user lookup finds the admin role
PipeFindUser(p) ==
    /\ procs[p].pc = "findUser"
    /\ Step(p, [procs[p] EXCEPT !.pc = "findFeature", !.log = Append(@, "store")])
    /\ UNCHANGED <<features, flags, nextId>>

\* feature-flags.ts 164-171, hook-helpers.ts 38: the after-hook is invoked and awaited
PipeAfterHookStart(p) ==
    /\ procs[p].pc = "afterHook"
    /\ Step(p, [procs[p] EXCEPT !.pc = "afterHookRunning",
                                 !.log = Append(@, "after.start")])
    /\ UNCHANGED <<features, flags, nextId>>

\* hook-helpers.ts 38-39, feature-flags.ts 176-183: the hook returns; respond
PipeAfterHookEnd(p) ==
    /\ procs[p].pc = "afterHookRunning"
    /\ \E h \in PipeAfterReturns :
        Step(p, [procs[p] EXCEPT !.pc = "done",
                                 !.status = AfterData(h, SuccessTrue).status,
                                 !.log = Append(@, "after.end")])
    /\ UNCHANGED <<features, flags, nextId>>

NextPipe ==
    \E p \in Procs :
        \/ RaceCreateFeatureCall(p)
        \/ RaceCreateFeatureFindExisting(p)
        \/ RaceCreateFeatureCreate(p, PipeMaxRows)
        \/ PipeSetFeatureFlagCall(p, PipeMaxRows)
        \/ PipeBeforeHookStart(p)
        \/ PipeBeforeHookEnd(p)
        \/ PipeFindUser(p)
        \/ RaceSetFeatureFlagFindFeature(p)
        \/ RaceSetFeatureFlagFindExisting(p)
        \/ RaceSetFeatureFlagCreate(p, PipeMaxRows)
        \/ RaceSetFeatureFlagFetchDetails(p)
        \/ PipeAfterHookStart(p)
        \/ PipeAfterHookEnd(p)
        \/ RaceReturn(p)

SpecPipe == InitRace /\ [][NextPipe]_vars

(***************************************************************************)
(* Vocabulary of the properties                                            *)
(***************************************************************************)
IsAdminSession(session) == HasUser(session) /\ UserRole(session.user) = RoleAdmin
IsMemberOf(session, org) == HasUser(session) /\ <<org, session.user>> \in Members
HasFlagRow(gs, org, fid) == \E g \in gs : g.organizationId = org /\ g.featureId = fid

\* the features live for org: an enabled Flag row and an active Feature row
LiveIds(org) ==
    {fid \in Ids :
        /\ \E g \in flags : g.organizationId = org /\ g.featureId = fid /\ g.enabled
        /\ \E f \in features : f.id = fid /\ f.active}

\* the features a listing response has an entry for
ReturnedIds(resp) ==
    IF resp.kind \in {"data", "raw"} /\ resp.v.t = "list"
    THEN {IF e.t = "feature" THEN e.id ELSE e.featureId : e \in resp.v.items}
    ELSE {}

GetFlagsOps == {"getFeatureFlags", "getOrganizationFeatures/first"}
GetAvailableOps ==
    {"getAvailableFeatures", "getAvailableFeatures/organization-features",
     "getAvailableFeatures/features"}

(***************************************************************************)
(* C1: with no hooks registered, get-flags called by a member of P returns *)
(* an entry for F exactly when the store holds an enabled Flag row for     *)
(* (P,F) and an active Feature row F; other flags are dropped, no error.   *)
(***************************************************************************)
C1_GetFlagsReturnsLiveFlags ==
    (last.op \in GetFlagsOps /\ IsMemberOf(last.session, last.args.org))
    => /\ last.resp.status = 200
       /\ last.resp.kind = "data"
       /\ ReturnedIds(last.resp) = LiveIds(last.args.org)

(***************************************************************************)
(* C2: for a member whose session's active organization is P,              *)
(* get-available-features returns exactly the live flags of P: it has an   *)
(* entry for F exactly when F is live for P.                               *)
(***************************************************************************)
C2_GetAvailableReturnsLiveFlags ==
    ( /\ last.op \in GetAvailableOps
      /\ HasUser(last.session)
      /\ Truthy(last.session.activeOrganizationId)
      /\ IsMemberOf(last.session, last.session.activeOrganizationId.s) )
    => ReturnedIds(last.resp) = LiveIds(last.session.activeOrganizationId.s)

(***************************************************************************)
(* C3: for an admin caller, P existing and F existing and active, a        *)
(* set-flag on a pair with no Flag row succeeds and stores the row; once   *)
(* a set-flag of the pair has succeeded and no remove-flag of it since, a  *)
(* further set-flag returns 409 whatever enabled value it asks for, and    *)
(* leaves the Flag rows as they are.                                       *)
(***************************************************************************)
C3_NoUpsert ==
    [][\A P \in Organizations, F \in Ids :
        ( /\ Idle
          /\ last'.op = "setFeatureFlag"
          /\ last'.args.org = P /\ last'.args.fid = F
          /\ IsAdminSession(last'.session)
          /\ \E f \in features : f.id = F /\ f.active )
        => /\ ~HasFlagRow(flags, P, F)
              => /\ last'.resp.status = 200
                 /\ \E g \in flags' :
                       /\ g.organizationId = P /\ g.featureId = F
                       /\ g.enabled = last'.args.body.enabled.b
                       /\ flags' = flags \cup {g}
           /\ <<P, F>> \in flagHistory.set
              => /\ last'.resp.status = 409
                 /\ flags' = flags]_vars

C3_Witness ==
    /\ last.op = "setFeatureFlag"
    /\ IsAdminSession(last.session)
    /\ last.resp.status = 409
    /\ <<last.args.org, last.args.fid>> \in flagHistory.set
    /\ \E g \in flags :
          /\ g.organizationId = last.args.org /\ g.featureId = last.args.fid
          /\ g.enabled # last.args.body.enabled.b

(***************************************************************************)
(* C4: for an admin caller, remove-flag on a pair with no Flag row returns *)
(* 404 and changes nothing; a successful remove leaves no row for the      *)
(* pair, and from then until a set-flag recreates it every remove of the   *)
(* pair returns 404.                                                       *)
(***************************************************************************)
C4_RemoveNeverTwice ==
    [][\A P \in Organizations, F \in Ids :
        ( /\ Idle
          /\ last'.op = "removeFeatureFlag"
          /\ last'.args.org = P /\ last'.args.fid = F
          /\ IsAdminSession(last'.session) )
        => /\ ~HasFlagRow(flags, P, F)
              => /\ last'.resp.status = 404
                 /\ flags' = flags /\ features' = features
           /\ <<P, F>> \in flagHistory.removed => last'.resp.status = 404
           /\ last'.resp.status = 200
              => /\ HasFlagRow(flags, P, F)
                 /\ ~HasFlagRow(flags', P, F)
                 /\ <<P, F>> \in flagHistory'.removed]_vars

C4_Witness ==
    /\ last.op = "removeFeatureFlag"
    /\ IsAdminSession(last.session)
    /\ last.resp.status = 404
    /\ <<last.args.org, last.args.fid>> \in flagHistory.removed

\* what the registered hooks of the last request returned
BeforeHookReturned == last.op # "none" /\ last.before.t = "before"
AfterHookReturned == last.op # "none" /\ last.after.t = "after"
\* the before-hook of the request short-circuits it
ShortCircuits(h) == h.t = "before" /\ (h.error # Undef \/ h.skip = VBool(TRUE))
StatusOr(err, default) == IF err.status = Undef THEN default ELSE err.status.n

(***************************************************************************)
(* C5: for each operation, a before-hook that returns {skip: true,         *)
(* data: X} and no error leads to no store write and to a response whose   *)
(* data equals X (stated here for an X that is not falsy).                 *)
(***************************************************************************)
C5_SkipReturnsHookData ==
    ( /\ BeforeHookReturned
      /\ last.before.skip = VBool(TRUE)
      /\ last.before.error = Undef
      /\ Truthy(last.before.data) )
    => /\ last.writes = 0
       /\ last.resp.status = 200
       /\ last.resp.kind = "data"
       /\ last.resp.v = last.before.data

(***************************************************************************)
(* C6: when the after-hook of an operation returns an error, the response  *)
(* is that error, with the hook's status or 500 when it gives none, and    *)
(* never the action's data.                                                *)
(***************************************************************************)
C6_AfterHookErrorIsTheResponse ==
    (AfterHookReturned /\ last.after.error # Undef)
    => /\ last.resp.kind = "error"
       /\ last.resp.v = VStr(last.after.error.message)
       /\ last.resp.status = StatusOr(last.after.error, 500)

C6_Witness ==
    /\ AfterHookReturned
    /\ last.op = "setFeatureFlag"
    /\ last.after.error # Undef /\ last.after.error.status = Undef
    /\ last.after.data # Undef
    /\ last.writes = 1
    /\ last.resp.status = 500

(***************************************************************************)
(* C7: when the after-hook returns data and no error, the data replaces    *)
(* the action's result in the response; when it returns neither, the       *)
(* response carries the action's own result.                               *)
(***************************************************************************)
C7_AfterHookDataReplacesResult ==
    (AfterHookReturned /\ last.after.error = Undef)
    => /\ last.resp.status = 200
       /\ last.resp.kind \in {"data", "raw"}
       /\ last.resp.v = IF last.after.data # Undef THEN last.after.data ELSE last.own

C7_Witness ==
    /\ AfterHookReturned
    /\ last.op = "listFeatures"
    /\ last.after.error = Undef
    /\ last.after.data = EmptyList
    /\ last.own # EmptyList
    /\ last.resp.v = EmptyList

(***************************************************************************)
(* C8: when the before-hook returns an error, with or without skip or      *)
(* data, the main action never runs: nothing is read or written, and the   *)
(* response is the hook's message with the hook's status, or 400 when it   *)
(* gives none.                                                             *)
(***************************************************************************)
C8_BeforeHookErrorStopsTheRequest ==
    [][( /\ Idle
         /\ last'.op # "none"
         /\ last'.before.t = "before"
         /\ last'.before.error # Undef )
       => /\ ~last'.ran
          /\ last'.reads = 0 /\ last'.writes = 0
          /\ last'.after = NotCalled
          /\ features' = features /\ flags' = flags /\ nextId' = nextId
          /\ last'.resp.kind = "error"
          /\ last'.resp.v = VStr(last'.before.error.message)
          /\ last'.resp.status = StatusOr(last'.before.error, 400)]_vars

C8_Witness ==
    /\ BeforeHookReturned
    /\ last.op = "deleteFeature"
    /\ IsAdminSession(last.session)
    /\ \E f \in features : f.id = last.args.fid
    /\ last.before.error # Undef /\ last.before.error.status = Undef
    /\ last.before.skip = VBool(FALSE)
    /\ last.before.data # Undef
    /\ last.resp.status = 400

\* the operations whose main action works on an input the before-hook may replace
InputOps == {"createFeature", "updateFeature", "toggleFeature", "setFeatureFlag"}

(***************************************************************************)
(* C9: when the before-hook returns no error and does not skip, the main   *)
(* action runs, on the hook's data when the hook gives one and on the      *)
(* request's input otherwise; this includes the data false given to        *)
(* toggle-feature.  What the action writes is that input.                  *)
(***************************************************************************)
C9_BeforeHookDataIsTheInput ==
    [][( /\ Idle
         /\ last'.op \in InputOps
         /\ last'.before.t = "before"
         /\ last'.before.error = Undef
         /\ last'.before.skip \in {Undef, VBool(FALSE)} )
       => LET given == IF last'.before.data # Undef THEN last'.before.data
                       ELSE last'.args.body
              fid == last'.args.fid
          IN  /\ last'.ran
              /\ last'.input = given
              /\ last'.writes = 1 =>
                   CASE last'.op = "toggleFeature" ->
                          \E f \in features' : f.id = fid /\ f.active = given.b
                     [] last'.op = "setFeatureFlag" ->
                          \E g \in flags' \ flags :
                              g.featureId = fid /\ g.enabled = given.enabled.b
                     [] last'.op = "createFeature" ->
                          \E f \in features' \ features :
                              /\ f.name = given.name
                              /\ f.displayName = given.displayName
                              /\ f.active = (given.active = Undef \/ given.active = VBool(TRUE))
                     [] last'.op = "updateFeature" ->
                          \E f \in features' :
                              /\ f.id = fid
                              /\ given.active # Undef => f.active = given.active.b
                              /\ given.displayName # Undef => f.displayName = given.displayName]_vars

C9_Witness ==
    /\ BeforeHookReturned
    /\ last.op = "toggleFeature"
    /\ last.before.error = Undef
    /\ last.before.skip = VBool(FALSE)
    /\ last.before.data = VBool(FALSE)
    /\ last.args.body = VBool(TRUE)
    /\ last.writes = 1
    /\ \E f \in features : f.id = last.args.fid /\ ~f.active

(***************************************************************************)
(* C10 as stated: for every operation a caller without a session receives *)
(* 401 ahead of any other check, any hook outcome and any store access.    *)
(***************************************************************************)
C10_UnauthorizedAheadOfEverything ==
    (last.op # "none" /\ last.session = NoSession)
    => /\ last.resp.status = 401
       /\ last.reads = 0 /\ last.writes = 0

(***************************************************************************)
(* C10: the session check is the first check of the main action: a caller  *)
(* without a session whose request the before-hook does not short-circuit  *)
(* receives 401 Unauthorized ahead of any role or membership check and of  *)
(* any store access; nothing is read or written, no after-hook runs.       *)
(***************************************************************************)
C10_UnauthorizedFirstInMainAction ==
    [][( /\ Idle
         /\ last'.op # "none"
         /\ last'.session = NoSession
         /\ ~ShortCircuits(last'.before) )
       => /\ last'.resp.status = 401
          /\ last'.resp.kind = "error"
          /\ last'.resp.v = VStr("Unauthorized")
          /\ last'.reads = 0 /\ last'.writes = 0
          /\ last'.after = NotCalled
          /\ features' = features /\ flags' = flags /\ nextId' = nextId]_vars

C10_Witness ==
    /\ last.op = "toggleFeature"
    /\ last.session = NoSession
    /\ last.before.t = "before"
    /\ ~ShortCircuits(last.before)
    /\ last.before.data # Undef
    /\ features # {}
    /\ ~\E f \in features : f.id = last.args.fid
    /\ last.resp.status = 401

\* the seven operations reserved to administrators
AdminOps ==
    {"createFeature", "listFeatures", "updateFeature", "deleteFeature", "toggleFeature",
     "setFeatureFlag", "removeFeatureFlag"}

(***************************************************************************)
(* C11: a request changes the Feature or Flag rows only when its caller    *)
(* has a session and the caller's user record holds the admin role; an     *)
(* authenticated caller without the admin role receives 403 from each of   *)
(* the seven administrative operations.                                    *)
(***************************************************************************)
C11_WritesOnlyByAdmins ==
    [][(Idle /\ last'.op # "none")
       => /\ (features' # features \/ flags' # flags) => IsAdminSession(last'.session)
          /\ ( /\ last'.op \in AdminOps
               /\ HasUser(last'.session)
               /\ ~IsAdminSession(last'.session) )
             => last'.resp.status = 403]_vars

(***************************************************************************)
(* C12: for an authenticated caller who is not a member of the             *)
(* organization, get-available-features for the session's active           *)
(* organization returns an empty list and no error, and get-flags for the  *)
(* organization returns 403; get-available-features returns an empty list  *)
(* too when the session has no active organization.                        *)
(***************************************************************************)
C12_NonMemberSeesNothing ==
    /\ ( /\ last.op \in {"getAvailableFeatures", "getAvailableFeatures/organization-features"}
         /\ HasUser(last.session)
         /\ \/ ~Truthy(last.session.activeOrganizationId)
            \/ ~IsMemberOf(last.session, last.session.activeOrganizationId.s) )
       => /\ last.resp.status = 200
          /\ last.resp.kind = "data"
          /\ last.resp.v = EmptyList
    /\ ( /\ last.op = "getFeatureFlags"
         /\ HasUser(last.session)
         /\ ~IsMemberOf(last.session, last.args.org) )
       => /\ last.resp.status = 403
          /\ last.resp.kind = "error"

C12_Witness ==
    /\ last.op = "getAvailableFeatures"
    /\ HasUser(last.session)
    /\ Truthy(last.session.activeOrganizationId)
    /\ ~IsMemberOf(last.session, last.session.activeOrganizationId.s)
    /\ LiveIds(last.session.activeOrganizationId.s) # {}
    /\ last.resp.v = EmptyList

\* two handlers of the same operation in flight, both past their last step
BothDone(p, q, op) ==
    /\ p # q
    /\ procs[p].op = op /\ procs[q].op = op
    /\ procs[p].pc = "done" /\ procs[q].pc = "done"

(***************************************************************************)
(* C13: when two overlapping create-feature calls with the same name both  *)
(* run their existence check before either write commits (both find no     *)
(* row), and the store enforces no uniqueness of names, both succeed and   *)
(* the store holds two Feature rows with that name.                        *)
(***************************************************************************)
C13_DuplicateNameRace ==
    \A p, q \in Procs :
        ( /\ BothDone(p, q, "createFeature")
          /\ procs[p].name = procs[q].name
          /\ procs[p].existing = Null /\ procs[q].existing = Null
          /\ ~uniqueNames )
        => /\ procs[p].status = 200 /\ procs[q].status = 200
           /\ Cardinality({f \in features : f.name = procs[p].name}) >= 2

C13_Witness ==
    \E p, q \in Procs :
        /\ BothDone(p, q, "createFeature")
        /\ ~uniqueNames
        /\ procs[p].name = procs[q].name
        /\ procs[p].status = 200 /\ procs[q].status = 200
        /\ Cardinality({f \in features : f.name = procs[p].name}) = 2

NamesDistinct(fs) == \A f, g \in fs : f.name = g.name => f = g

(***************************************************************************)
(* C15: with create-feature calls served one at a time, a create whose     *)
(* name is the name of an existing Feature returns 409 and adds no row,    *)
(* and in every reachable state no two Feature rows share a name.          *)
(***************************************************************************)
C15_NamesStayUnique ==
    [][/\ NamesDistinct(features')
       /\ ( /\ Idle
            /\ last'.op = "createFeature"
            /\ IsAdminSession(last'.session)
            /\ \E f \in features : f.name = last'.args.body.name )
          => /\ last'.resp.status = 409
             /\ features' = features /\ flags' = flags /\ nextId' = nextId]_vars

C15_Witness ==
    /\ last.op = "createFeature"
    /\ IsAdminSession(last.session)
    /\ last.resp.status = 409
    /\ Cardinality(features) = 2
    /\ \E f \in features : f.name = last.args.body.name /\ f.active # (last.args.body.active = Undef)

(***************************************************************************)
(* C16: set-flag applies its checks in this order, the first failing one   *)
(* deciding the response: feature F missing, 404; F inactive, 400 whatever *)
(* enabled value is asked for; principal P missing, 404; a Flag for (P,F)  *)
(* present, 409.  No Flag row is written when a check fails.               *)
(***************************************************************************)
C16_SetFlagCheckOrder ==
    [][( /\ Idle
         /\ last'.op = "setFeatureFlag"
         /\ IsAdminSession(last'.session) )
       => LET P == last'.args.org
              F == last'.args.fid
              expected ==
                  IF ~\E f \in features : f.id = F THEN <<404, "Feature not found">>
                  ELSE IF \E f \in features : f.id = F /\ ~f.active
                       THEN <<400, "Feature is not enabled globally">>
                  ELSE IF P \notin Organizations THEN <<404, "Organization not found">>
                  ELSE IF HasFlagRow(flags, P, F) THEN <<409, "Feature flag already exists">>
                  ELSE <<200, "">>
          IN  /\ last'.resp.status = expected[1]
              /\ expected[1] # 200
                 => /\ last'.resp.kind = "error"
                    /\ last'.resp.v = VStr(expected[2])
                    /\ flags' = flags /\ features' = features /\ nextId' = nextId]_vars

C16_Witness ==
    /\ last.op = "setFeatureFlag"
    /\ IsAdminSession(last.session)
    /\ last.resp.status = 400
    /\ last.args.body.enabled = VBool(FALSE)
    /\ HasFlagRow(flags, last.args.org, last.args.fid)

\* F is live for org in the store (fs, gs)
LiveIn(fs, gs, org, fid) ==
    /\ \E g \in gs : g.organizationId = org /\ g.featureId = fid /\ g.enabled
    /\ \E f \in fs : f.id = fid /\ f.active

(***************************************************************************)
(* C17: a successful toggle of F to inactive takes F out of the live set   *)
(* of every principal and leaves the Flag rows as they are; a successful   *)
(* toggle of F to active puts F into the live set of every principal that  *)
(* has an enabled Flag for it, with no other operation; a successful       *)
(* remove-flag of (P,F) takes F out of P's live set and a successful       *)
(* set-flag of (P,F) with enabled = true puts it in.  The live set is what *)
(* get-flags returns to a member.                                          *)
(***************************************************************************)
C17_TogglingTheLiveSet ==
    [][(Idle /\ last'.op # "none" /\ last'.resp.status = 200)
       => LET F == last'.args.fid
              P == last'.args.org
          IN  /\ (last'.op = "toggleFeature" /\ last'.args.body = VBool(FALSE))
                 => /\ flags' = flags
                    /\ \A o \in Organizations : ~LiveIn(features', flags', o, F)
              /\ (last'.op = "toggleFeature" /\ last'.args.body = VBool(TRUE))
                 => /\ flags' = flags
                    /\ \A o \in Organizations :
                          LiveIn(features', flags', o, F)
                          <=> \E g \in flags :
                                 g.organizationId = o /\ g.featureId = F /\ g.enabled
              /\ last'.op = "removeFeatureFlag"
                 => /\ LiveIn(features, flags, P, F) => ~LiveIn(features', flags', P, F)
                    /\ features' = features
              /\ (last'.op = "setFeatureFlag" /\ last'.args.body.enabled = VBool(TRUE))
                 => LiveIn(features', flags', P, F)
              /\ (last'.op = "getFeatureFlags" /\ IsMemberOf(last'.session, P))
                 => ReturnedIds(last'.resp)
                    = {fid \in Ids : LiveIn(features', flags', P, fid)}]_vars

C17_Witness ==
    /\ last.op = "toggleFeature"
    /\ last.resp.status = 200
    /\ last.args.body = VBool(FALSE)
    /\ \E g \in flags :
          g.organizationId = "o1" /\ g.featureId = last.args.fid /\ g.enabled
    /\ last.args.fid \notin LiveIds("o1")

(***************************************************************************)
(* C18: a successful update-feature sets each of displayName, description  *)
(* and active to the value of the (possibly hook-rewritten) input exactly  *)
(* when the input carries the field, null and false included, and leaves   *)
(* the omitted fields, the name, the other Feature rows and the Flag rows  *)
(* as they were.                                                           *)
(***************************************************************************)
C18_PartialUpdate ==
    [][( /\ Idle
         /\ last'.op = "updateFeature"
         /\ last'.resp.status = 200 )
       => LET given == IF last'.before # NoHook /\ last'.before.data # Undef
                       THEN last'.before.data ELSE last'.args.body
          IN  \E f \in features, u \in features' :
                /\ f.id = last'.args.fid /\ u.id = f.id
                /\ features' \ {u} = features \ {f}
                /\ flags' = flags
                /\ u.name = f.name
                /\ u.displayName = IF given.displayName # Undef
                                   THEN given.displayName ELSE f.displayName
                /\ u.description = IF given.description # Undef
                                   THEN given.description ELSE f.description
                /\ u.active = IF given.active # Undef THEN given.active.b ELSE f.active]_vars

C18_Witness ==
    /\ last.op = "updateFeature"
    /\ last.resp.status = 200
    /\ last.args.body = UpdateFeatureInput(Undef, VStr("x"), Undef)
    /\ last.before.data = Undef
    /\ \E u \in features :
          /\ u.id = last.args.fid
          /\ u.description = VStr("x")
          /\ u.displayName = VStr("E")
          /\ ~u.active

(***************************************************************************)
(* C19: every successful update-feature or toggle-feature strictly         *)
(* increases the updatedAt of the Feature it changes; stated here as what  *)
(* that requires: the row's updatedAt after the request is a time, and is  *)
(* not the value it had before.                                            *)
(***************************************************************************)
C19_UpdatedAtAdvances ==
    [][( /\ Idle
         /\ last'.op \in {"updateFeature", "toggleFeature"}
         /\ last'.resp.status = 200 )
       => \A f \in features, u \in features' :
             (f.id = last'.args.fid /\ u.id = f.id)
             => /\ u.updatedAt # Undef
                /\ u.updatedAt # f.updatedAt]_vars

\* the pair has a Flag row and every row of it is stored with enabled = false
DisabledRow(gs, org, fid) ==
    /\ HasFlagRow(gs, org, fid)
    /\ \A g \in gs : (g.organizationId = org /\ g.featureId = fid) => ~g.enabled

(***************************************************************************)
(* C20: a successful set-flag stores a Flag row with exactly the requested *)
(* enabled value.  A row stored with enabled = false is absent from the    *)
(* lists get-flags and get-available-features return, like no row; unlike  *)
(* no row, it makes a further set-flag of the pair return 409 and lets     *)
(* remove-flag of the pair succeed.                                        *)
(***************************************************************************)
C20_DisabledRowIsARow ==
    [][(Idle /\ last'.op # "none")
       => LET P == last'.args.org
              F == last'.args.fid
              admin == IsAdminSession(last'.session)
          IN  /\ (last'.op = "setFeatureFlag" /\ last'.resp.status = 200)
                 => \E g \in flags' \ flags :
                       /\ g.organizationId = P /\ g.featureId = F
                       /\ g.enabled = last'.args.body.enabled.b
                       /\ flags' = flags \cup {g}
              /\ (last'.op = "getFeatureFlags" /\ IsMemberOf(last'.session, P))
                 => \A fid \in Ids :
                       DisabledRow(flags, P, fid) => fid \notin ReturnedIds(last'.resp)
              /\ ( /\ last'.op = "getAvailableFeatures"
                   /\ HasUser(last'.session)
                   /\ Truthy(last'.session.activeOrganizationId) )
                 => \A fid \in Ids :
                       DisabledRow(flags, last'.session.activeOrganizationId.s, fid)
                       => fid \notin ReturnedIds(last'.resp)
              /\ ( /\ last'.op = "setFeatureFlag" /\ admin
                   /\ DisabledRow(flags, P, F)
                   /\ \E f \in features : f.id = F /\ f.active )
                 => last'.resp.status = 409 /\ flags' = flags
              /\ (last'.op = "removeFeatureFlag" /\ admin /\ DisabledRow(flags, P, F))
                 => /\ last'.resp.status = 200
                    /\ ~HasFlagRow(flags', P, F)]_vars

C20_Witness ==
    /\ last.op = "setFeatureFlag"
    /\ IsAdminSession(last.session)
    /\ last.resp.status = 409
    /\ last.args.body.enabled = VBool(TRUE)
    /\ DisabledRow(flags, last.args.org, last.args.fid)
    /\ last.args.fid \notin LiveIds(last.args.org)

NineOps ==
    AdminOps \cup {"getFeatureFlags", "getAvailableFeatures",
                   "getAvailableFeatures/organization-features"}

(***************************************************************************)
(* C22: every one of the nine operations answers {data: T} or              *)
(* {error: message, status}: a success response carries its payload under  *)
(* a data key, a failure carries an error message with its status.         *)
(***************************************************************************)
C22_DataOrError ==
    last.op \in NineOps
    => \/ last.resp.status = 200 /\ last.resp.kind = "data"
       \/ last.resp.status # 200 /\ last.resp.kind = "error" /\ last.resp.v.t = "str"

(***************************************************************************)
(* C23: create-feature by an admin with an input that lacks name or        *)
(* displayName returns 400 and writes nothing; an input that has both, the *)
(* name not taken, stores one Feature whose active is true when the input  *)
(* omits active and the given value, false included, when it carries one.  *)
(***************************************************************************)
C23_CreateValidatesAndDefaults ==
    [][( /\ Idle
         /\ last'.op = "createFeature"
         /\ IsAdminSession(last'.session) )
       => LET body == last'.args.body
              missing == body.name = Undef \/ body.displayName = Undef
          IN  /\ missing
                 => /\ last'.resp.status = 400
                    /\ last'.resp.kind = "error"
                    /\ features' = features /\ flags' = flags /\ nextId' = nextId
              /\ ( /\ Truthy(body.name) /\ Truthy(body.displayName)
                   /\ ~\E f \in features : f.name = body.name )
                 => /\ last'.resp.status = 200
                    /\ \E f \in features' \ features :
                          /\ features' = features \cup {f}
                          /\ f.name = body.name
                          /\ f.displayName = body.displayName
                          /\ f.active = IF body.active = Undef THEN TRUE ELSE body.active.b
                    /\ flags' = flags
              /\ features' # features => ~missing]_vars

C23_Witness ==
    /\ last.op = "createFeature"
    /\ IsAdminSession(last.session)
    /\ last.resp.status = 200
    /\ last.args.body.active = VBool(FALSE)
    /\ \E f \in features : f.name = last.args.body.name /\ ~f.active
    /\ \E f \in features : f.active

(***************************************************************************)
(* C24: no operation changes the name or the id of an existing Feature: a  *)
(* row keeps the name it was created with through every update-feature and *)
(* toggle-feature, also when the before-hook's rewritten input carries a   *)
(* name; a new row takes an id no earlier row had.                         *)
(***************************************************************************)
C24_NameIsImmutable ==
    [][/\ \A f \in features, u \in features' : u.id = f.id => u.name = f.name
       /\ \A u \in features' : (\A f \in features : f.id # u.id) => u.id = nextId
       /\ nextId' >= nextId
       /\ \A f \in features : f.id < nextId
       /\ ( /\ Idle
            /\ last'.op \in {"updateFeature", "toggleFeature"} )
          => {f.id : f \in features'} = {f.id : f \in features}]_vars

C24_Witness ==
    /\ last.op = "updateFeature"
    /\ last.resp.status = 200
    /\ last.before = RenamingHook
    /\ \E u \in features :
          /\ u.id = last.args.fid
          /\ u.name = VStr("n1")
          /\ u.displayName = VStr("H")

(***************************************************************************)
(* C25: with an after-hook registered for every operation, each request    *)
(* that the before-hook does not short-circuit has its after-hook invoked  *)
(* with the main action's outcome, whether the action succeeded or failed. *)
(***************************************************************************)
C25_AfterHookSeesEveryOutcome ==
    (last.op \in NineOps /\ last.ran) => last.after.t = "after"

\* the positions in a handler's log of the steps named e
At(log, e) == {i \in 1..Len(log) : log[i] = e}

(***************************************************************************)
(* C26: within one operation the before-hook has returned before the main  *)
(* action's first store call, the main action's last store call has        *)
(* returned before the after-hook is invoked, each hook is invoked at most *)
(* once, and the after-hook is invoked only once the before-hook has       *)
(* returned: the two never overlap.                                        *)
(***************************************************************************)
C26_PipelineOrder ==
    \A p \in Procs :
        LET log == procs[p].log
        IN  /\ Cardinality(At(log, "before.start")) <= 1
            /\ Cardinality(At(log, "after.start")) <= 1
            /\ procs[p].hasBefore
               => \A i \in At(log, "store") : \E j \in At(log, "before.end") : j < i
            /\ \A i \in At(log, "store"), j \in At(log, "after.start") : i < j
            /\ \A j \in At(log, "after.start"), k \in At(log, "before.start") :
                  \E e \in At(log, "before.end") : k < e /\ e < j
            /\ \A e \in At(log, "before.end") \cup At(log, "after.end") : e >= 2
            /\ \A e \in At(log, "before.end") : log[e - 1] = "before.start"
            /\ \A e \in At(log, "after.end") : log[e - 1] = "after.start"

C26_Witness ==
    \E p \in Procs :
        /\ procs[p].op = "setFeatureFlag" /\ procs[p].pc = "done"
        /\ procs[p].log = <<"before.start", "before.end", "store", "store", "store",
                            "store", "store", "after.start", "after.end">>
        /\ \E q \in Procs : q # p /\ procs[q].pc = "beforeHookRunning"

\* the statuses of the main action's authorization and validation errors
CheckErrors == {401, 403, 404, 400, 409}

(***************************************************************************)
(* C27: a request answered with an authorization or validation error      *)
(* (401, 403, 404, 400, 409), or short-circuited by its before-hook,       *)
(* leaves the Feature and Flag tables exactly as they were; a request that *)
(* changes a table is one whose main action ran and passed its checks.     *)
(***************************************************************************)
C27_ErrorsWriteNothing ==
    [][(Idle /\ last'.op # "none")
       => /\ (last'.resp.status \in CheckErrors \/ ShortCircuits(last'.before))
             => /\ features' = features /\ flags' = flags /\ nextId' = nextId
                /\ last'.writes = 0
          /\ (features' # features \/ flags' # flags)
             => /\ last'.ran
                /\ ~ShortCircuits(last'.before)
                /\ last'.after # NotCalled]_vars

C27_Witness ==
    /\ last.op = "setFeatureFlag"
    /\ last.resp.status = 409
    /\ last.before.t = "before"
    /\ ~ShortCircuits(last.before)
    /\ last.before.data # Undef
    /\ Cardinality(flags) = 1

\* handler p takes its delete step in this transition and answers 200
RemoveSucceeds(p) ==
    /\ procs[p].op = "removeFeatureFlag" /\ procs[p].pc = "delete"
    /\ procs'[p].pc = "done" /\ procs'[p].status = 200

C29_EveryFlagHasItsFeature ==
    cascade => \A g \in flags : \E f \in features : f.id = g.featureId

(***************************************************************************)
(* C30: under any interleaving of remove-flag calls for the same (P,F)     *)
(* while a single Flag row of the pair is present, at most one call        *)
(* returns success: two calls that both return success have removed two    *)
(* different rows.                                                         *)
(***************************************************************************)
C30_OneRemovePerRow ==
    \A p, q \in Procs :
        ( /\ BothDone(p, q, "removeFeatureFlag")
          /\ procs[p].org = procs[q].org /\ procs[p].fid = procs[q].fid
          /\ procs[p].status = 200 /\ procs[q].status = 200 )
        => procs[p].existing # procs[q].existing

(***************************************************************************)
(* C31: when the after-hook reports an error the main action has           *)
(* succeeded and its write stays: the caller receives the hook's error     *)
(* while the row created, updated or deleted is in the state the action    *)
(* left it in.  A set-flag of a pair whose row is in the store, such a row *)
(* included, returns 409 when it reaches the existing-flag lookup.         *)
(***************************************************************************)
C31_AfterHookErrorKeepsTheWrite ==
    [][(Idle /\ last'.op # "none")
       => LET F == last'.args.fid
              P == last'.args.org
          IN  /\ (last'.after.t = "after" /\ last'.after.error # Undef)
                 => /\ last'.resp.kind = "error"
                    /\ last'.resp.v = VStr(last'.after.error.message)
                    /\ CASE last'.op = "setFeatureFlag" ->
                              \E g \in flags' \ flags :
                                  /\ g.organizationId = P /\ g.featureId = F
                                  /\ flags' = flags \cup {g}
                         [] last'.op = "removeFeatureFlag" ->
                              HasFlagRow(flags, P, F) /\ ~HasFlagRow(flags', P, F)
                         [] last'.op = "createFeature" ->
                              \E f \in features' \ features :
                                  f.name = last'.input.name /\ features' = features \cup {f}
                         [] last'.op = "deleteFeature" ->
                              /\ \E f \in features : f.id = F
                              /\ ~\E f \in features' : f.id = F
                         [] last'.op = "toggleFeature" ->
                              \E f \in features' : f.id = F /\ f.active = last'.input.b
                         [] last'.op = "updateFeature" ->
                              \E f \in features', e \in features :
                                  /\ f.id = F /\ e.id = F
                                  /\ f = updatedFeature(e, last'.input)
                         [] OTHER -> features' = features /\ flags' = flags
              /\ ( /\ last'.op = "setFeatureFlag"
                   /\ IsAdminSession(last'.session)
                   /\ ~ShortCircuits(last'.before)
                   /\ HasFlagRow(flags, P, F)
                   /\ \E f \in features : f.id = F /\ f.active )
                 => last'.resp.status = 409 /\ flags' = flags]_vars

C31_Witness ==
    /\ last.op = "setFeatureFlag"
    /\ last.after.t = "after"
    /\ last.after.error # Undef /\ last.after.data = Undef
    /\ last.resp.kind = "error"
    /\ HasFlagRow(flags, last.args.org, last.args.fid)
    /\ <<last.args.org, last.args.fid>> \in flagHistory.set

(***************************************************************************)
(* C32: under any interleaving of set-flag with toggle-feature or          *)
(* update-feature, a Flag row is written only while its Feature is active: *)
(* in the step that adds a Flag row the Feature it references has          *)
(* active = true.                                                          *)
(***************************************************************************)
C32_FlagWrittenWhileActive ==
    [][\A g \in flags' \ flags :
          \E f \in features : f.id = g.featureId /\ f.active]_vars

\* the caller of the last request is no member of the organization the request is
\* about: the one named for get-flags, the session's active one for
\* get-available-features (none counts as no membership)
Outsider ==
    \/ ~HasUser(last.session)
    \/ /\ last.op \in GetFlagsOps
       /\ ~IsMemberOf(last.session, last.args.org)
    \/ /\ last.op \notin GetFlagsOps
       /\ \/ ~Truthy(last.session.activeOrganizationId)
          \/ ~IsMemberOf(last.session, last.session.activeOrganizationId.s)

\* what an outsider is answered, whatever the store holds
OutsiderResponse ==
    IF ~HasUser(last.session) THEN Unauthorized
    ELSE IF last.op \in GetFlagsOps THEN NotMember
    ELSE JsonData(EmptyList)

(***************************************************************************)
(* C33: with no hooks registered, the response of get-flags and of         *)
(* get-available-features to a caller who has no session or is no member   *)
(* of the organization is determined by the caller and the operation       *)
(* alone: it is the same in any two store states, whatever Feature and     *)
(* Flag rows they hold.                                                    *)
(***************************************************************************)
C33_OutsiderLearnsNothing ==
    ( /\ last.op \in GetFlagsOps \cup {"getAvailableFeatures",
                                      "getAvailableFeatures/organization-features"}
      /\ Outsider )
    => last.resp = OutsiderResponse

C33_Witness ==
    /\ last.op = "getFeatureFlags"
    /\ HasUser(last.session)
    /\ ~IsMemberOf(last.session, last.args.org)
    /\ LiveIds(last.args.org) # {}
    /\ last.resp = NotMember

(***************************************************************************)
(* C34: the admin test is one test on all seven administrative operations: *)
(* the feature handlers' test and the flag handlers' test give the same    *)
(* answer for the stored role of the caller, and an authenticated caller   *)
(* of any of the seven is answered 403 "Forbidden: Admin access required"  *)
(* exactly when the stored role is not the admin role.                     *)
(***************************************************************************)
C34_OneAdminTest ==
    ( /\ last.op \in AdminOps
      /\ HasUser(last.session) )
    => /\ FeaturesAdminDenied(findUser(last.session))
              = FlagsAdminDenied(findUser(last.session))
       /\ (last.resp = Forbidden) = (UserRole(last.session.user) # RoleAdmin)

====
